---- MODULE Spec2Model ----
(***************************************************************************)
(* The text functions of the resume generator: spelling correction,        *)
(* weak-word / cliche / action-verb enhancement, ATS scoring and keyword   *)
(* extraction (src/text_enhancer.py), the resume templates                 *)
(* (src/resume_templates.py) and the HTML export (src/resume_export.py),   *)
(* as operators over texts, and one state machine per function that builds *)
(* its arguments and applies it.                                           *)
(*                                                                         *)
(* A text (a Python str) is a sequence of characters; a character is a     *)
(* one-character string, except the bullet dot U+2022.                     *)
(***************************************************************************)
EXTENDS Integers, Sequences, FiniteSets, TLC

VARIABLES
  sp_typed,   \* number of pieces typed into the spelling text
  sp_input,   \* the text as typed, before any check_spelling call
  sp_arg,     \* the text passed to the last check_spelling call
  sp_text,    \* the text: as typed, then as returned by check_spelling
  sp_corr,    \* the corrections list returned by the last check_spelling call
  sp_calls,   \* number of check_spelling calls applied to the text so far
  en_typed,   \* number of pieces typed into the text to enhance
  en_arg,     \* the text typed, the argument of enhance_text
  en_text,    \* the text returned by enhance_text
  en_enh,     \* the enhancements list returned by enhance_text
  en_done,    \* enhance_text has returned
  at_typed,   \* number of pieces typed into the resume text to score
  at_filled,  \* the body of the resume text has been typed
  at_text,    \* the resume text, the argument of calculate_ats_score
  at_keywords,\* the job_keywords argument of calculate_ats_score
  at_score,   \* the report returned by calculate_ats_score, <<>> before the call
  kw_typed,   \* number of pieces typed into the job description
  kw_text,    \* the job description, the argument of the keyword extraction
  kw_replies, \* the service's reply to each extraction call so far
  kw_results, \* what each extraction call ended in: a returned list or an error
  tp_fields,  \* the field values given to format_resume, by key
  tp_dark,    \* the dark_mode argument given, <<>> when it is not given
  tp_call,    \* the format_resume call made: its name, template and result
  ex_markdown,\* MARKDOWN_AVAILABLE, <<>> before the module is imported
  ex_text,    \* the resume text to export
  ex_pieces,  \* number of pieces typed into the text to export
  ex_files,   \* the files on the disk, their content by name
  ex_call,    \* the save_as_html call made: its arguments and its end
  dc_lines,   \* number of lines typed into the text to save
  dc_text,    \* the resume text to save as PDF and as DOCX
  dc_files,   \* the files on the disk, their content by name
  dc_calls,   \* the save_as_pdf and save_as_docx calls made and their values
  ap_libs,    \* what is installed, once the application has started
  ap_resume_text, \* self.resume_text
  ap_preview, \* the text in the preview widget
  ap_ats,     \* the score display: nothing, or a score and its rating
  ap_history, \* the history file
  ap_files,   \* the exported files, their content by name
  ap_workers, \* the enhance threads running: their position and their text
  ap_pending, \* the texts of the preview updates scheduled on the main loop
  ap_dialogs, \* the corrections windows open: the text checked and corrected
  ap_main,    \* the handler the main thread is in, and its position
  ap_generated, \* whether generate_resume has set a text that is not empty
  ap_last,    \* the handler that ended last, with what it read and returned
  lb_lexicon, \* the lexicon tables of text_enhancer
  lb_templates, \* the templates of resume_templates
  lb_typed,   \* number of pieces typed into the text
  lb_text,    \* the text that the functions are called with
  lb_called   \* the processing function called last

spell_vars == <<sp_typed, sp_input, sp_arg, sp_text, sp_corr, sp_calls>>
enhance_vars == <<en_typed, en_arg, en_text, en_enh, en_done>>
ats_vars == <<at_typed, at_filled, at_text, at_keywords, at_score>>
keyword_vars == <<kw_typed, kw_text, kw_replies, kw_results>>
template_vars == <<tp_fields, tp_dark, tp_call>>
export_vars == <<ex_markdown, ex_text, ex_pieces, ex_files, ex_call>>
document_vars == <<dc_lines, dc_text, dc_files, dc_calls>>
app_vars == <<ap_libs, ap_resume_text, ap_preview, ap_ats, ap_history, ap_files, ap_workers, ap_pending, ap_dialogs, ap_main, ap_generated, ap_last>>
library_vars == <<lb_lexicon, lb_templates, lb_typed, lb_text, lb_called>>
vars == <<spell_vars, enhance_vars, ats_vars, keyword_vars, template_vars, export_vars, document_vars, app_vars, library_vars>>

----------------------------------------------------------------------------
(* Characters and the str methods the functions use.                       *)

Chars(s) ==
  [i \in 1..Len(s) |-> SubSeq(s, i, i)]

Range(f) ==
  {f[i] : i \in DOMAIN f}

Min(S) ==
  CHOOSE x \in S : \A y \in S : x <= y

Max(S) ==
  CHOOSE x \in S : \A y \in S : x >= y

LOWER ==
  Chars("abcdefghijklmnopqrstuvwxyz")

UPPER ==
  Chars("ABCDEFGHIJKLMNOPQRSTUVWXYZ")

DIGITS ==
  Chars("0123456789")

\* The bullet dot, U+2022.
Dot ==
  "U+2022"

LowerOf ==
  [c \in Range(UPPER) |-> LOWER[CHOOSE i \in 1..26 : UPPER[i] = c]]

UpperOf ==
  [c \in Range(LOWER) |-> UPPER[CHOOSE i \in 1..26 : LOWER[i] = c]]

\* c.isupper() for a single character.
isupper(c) ==
  c \in DOMAIN LowerOf

char_lower(c) ==
  IF c \in DOMAIN LowerOf THEN LowerOf[c] ELSE c

char_upper(c) ==
  IF c \in DOMAIN UpperOf THEN UpperOf[c] ELSE c

\* str.lower()
lower(t) ==
  [i \in 1..Len(t) |-> char_lower(t[i])]

\* str.capitalize(): first character upper-cased, the rest lower-cased.
capitalize(t) ==
  [i \in 1..Len(t) |-> IF i = 1 THEN char_upper(t[i]) ELSE char_lower(t[i])]

\* The regex class \w.
WORD_CHARS ==
  Range(LOWER) \cup Range(UPPER) \cup Range(DIGITS) \cup {"_"}

IsWordChar(c) ==
  c \in WORD_CHARS

\* Whitespace, as str.split() and str.strip() see it.
IsSpace(c) ==
  c \in {" ", "\n", "\t"}

\* str.strip()
strip(t) ==
  LET solid == {i \in 1..Len(t) : ~IsSpace(t[i])}
  IN  IF solid = {} THEN <<>> ELSE SubSeq(t, Min(solid), Max(solid))

\* str.rstrip(chars)
rstrip(t, chars) ==
  LET kept == {i \in 1..Len(t) : t[i] \notin chars}
  IN  IF kept = {} THEN <<>> ELSE SubSeq(t, 1, Max(kept))

\* str.split(): the maximal runs of non-whitespace, left to right.
RECURSIVE split_from(_, _)
split_from(t, i) ==
  LET solid == {j \in i..Len(t) : ~IsSpace(t[j])}
  IN  IF solid = {}
      THEN <<>>
      ELSE LET b == Min(solid)
               e == Min({j \in b..Len(t) : j = Len(t) \/ IsSpace(t[j + 1])})
           IN  <<SubSeq(t, b, e)>> \o split_from(t, e + 1)

split(t) ==
  split_from(t, 1)

\* str.split('\n'): the lines, the empty ones included.
RECURSIVE split_lines_from(_, _)
split_lines_from(t, i) ==
  LET breaks == {j \in i..Len(t) : t[j] = "\n"}
  IN  IF breaks = {}
      THEN <<SubSeq(t, i, Len(t))>>
      ELSE <<SubSeq(t, i, Min(breaks) - 1)>> \o split_lines_from(t, Min(breaks) + 1)

split_lines(t) ==
  split_lines_from(t, 1)

\* sub in t
Contains(t, sub) ==
  \E i \in 1..(Len(t) - Len(sub) + 1) : SubSeq(t, i, i + Len(sub) - 1) = sub

----------------------------------------------------------------------------
(* The one regex shape the module uses: r'\b' + literal + r'\b' under      *)
(* re.IGNORECASE.                                                          *)

IsWordAt(t, i) ==
  i >= 1 /\ i <= Len(t) /\ IsWordChar(t[i])

\* \b at the gap before position i (1 <= i <= Len(t) + 1).
WordBoundary(t, i) ==
  IsWordAt(t, i - 1) # IsWordAt(t, i)

\* \b lit \b matches t at position i, ignoring case.
MatchesAt(t, i, lit) ==
  /\ i >= 1
  /\ i + Len(lit) - 1 <= Len(t)
  /\ \A j \in 1..Len(lit) : char_lower(t[i + j - 1]) = char_lower(lit[j])
  /\ WordBoundary(t, i)
  /\ WordBoundary(t, i + Len(lit))

\* re.search(pattern, t, re.IGNORECASE) is not None
re_search(t, lit) ==
  \E i \in 1..Len(t) : MatchesAt(t, i, lit)

\* re.finditer(pattern, t, re.IGNORECASE): the start positions of the
\* leftmost non-overlapping matches at or after position from.
RECURSIVE re_finditer(_, _, _)
re_finditer(t, lit, from) ==
  LET hits == {i \in from..Len(t) : MatchesAt(t, i, lit)}
  IN  IF hits = {}
      THEN <<>>
      ELSE <<Min(hits)>> \o re_finditer(t, lit, Min(hits) + Len(lit))

\* t with the n characters at each position of starts replaced by repl.
RECURSIVE Splice(_, _, _, _, _)
Splice(t, starts, n, repl, from) ==
  IF starts = <<>>
  THEN SubSeq(t, from, Len(t))
  ELSE SubSeq(t, from, Head(starts) - 1) \o repl
         \o Splice(t, Tail(starts), n, repl, Head(starts) + n)

\* re.sub(pattern, repl, t, flags=re.IGNORECASE)
re_sub(t, lit, repl) ==
  Splice(t, re_finditer(t, lit, 1), Len(lit), repl, 1)

----------------------------------------------------------------------------
(* check_spelling                                                          *)

\* The lexicon in dict (insertion) order: <<mistake, correction>>.
COMMON_SPELLING_MISTAKES ==
  << <<Chars("accomodate"), Chars("accommodate")>>,
     <<Chars("acheive"), Chars("achieve")>>,
     <<Chars("accross"), Chars("across")>>,
     <<Chars("agressive"), Chars("aggressive")>>,
     <<Chars("alot"), Chars("a lot")>>,
     <<Chars("arguement"), Chars("argument")>>,
     <<Chars("assesment"), Chars("assessment")>>,
     <<Chars("basicly"), Chars("basically")>>,
     <<Chars("begining"), Chars("beginning")>>,
     <<Chars("beleive"), Chars("believe")>>,
     <<Chars("calender"), Chars("calendar")>>,
     <<Chars("catagory"), Chars("category")>>,
     <<Chars("commited"), Chars("committed")>>,
     <<Chars("completly"), Chars("completely")>>,
     <<Chars("concious"), Chars("conscious")>>,
     <<Chars("definately"), Chars("definitely")>>,
     <<Chars("dissapoint"), Chars("disappoint")>>,
     <<Chars("embarass"), Chars("embarrass")>>,
     <<Chars("enviroment"), Chars("environment")>>,
     <<Chars("excelent"), Chars("excellent")>>,
     <<Chars("explaination"), Chars("explanation")>>,
     <<Chars("familar"), Chars("familiar")>>,
     <<Chars("finaly"), Chars("finally")>>,
     <<Chars("foriegn"), Chars("foreign")>>,
     <<Chars("gaurd"), Chars("guard")>>,
     <<Chars("goverment"), Chars("government")>>,
     <<Chars("grammer"), Chars("grammar")>>,
     <<Chars("happend"), Chars("happened")>>,
     <<Chars("harrassment"), Chars("harassment")>>,
     <<Chars("immediatly"), Chars("immediately")>>,
     <<Chars("independant"), Chars("independent")>>,
     <<Chars("liason"), Chars("liaison")>>,
     <<Chars("maintainance"), Chars("maintenance")>>,
     <<Chars("millenium"), Chars("millennium")>>,
     <<Chars("neccessary"), Chars("necessary")>>,
     <<Chars("noticable"), Chars("noticeable")>>,
     <<Chars("occassion"), Chars("occasion")>>,
     <<Chars("occured"), Chars("occurred")>>,
     <<Chars("persistant"), Chars("persistent")>>,
     <<Chars("personel"), Chars("personnel")>>,
     <<Chars("plannning"), Chars("planning")>>,
     <<Chars("posession"), Chars("possession")>>,
     <<Chars("prefered"), Chars("preferred")>>,
     <<Chars("recieve"), Chars("receive")>>,
     <<Chars("reccomend"), Chars("recommend")>>,
     <<Chars("refered"), Chars("referred")>>,
     <<Chars("referance"), Chars("reference")>>,
     <<Chars("relevent"), Chars("relevant")>>,
     <<Chars("seperate"), Chars("separate")>>,
     <<Chars("succesful"), Chars("successful")>>,
     <<Chars("supercede"), Chars("supersede")>>,
     <<Chars("tommorrow"), Chars("tomorrow")>>,
     <<Chars("untill"), Chars("until")>> >>

\* One reported pair: the matched text and the correction in its case.
case_replacement(matched_text, correction) ==
  IF isupper(matched_text[1])
  THEN <<matched_text, capitalize(correction)>>
  ELSE <<matched_text, correction>>

\* Variant: only the first match of an entry is reported.
entry_corrections_first(text, mistake, correction) ==
  LET starts == re_finditer(text, mistake, 1)
  IN  << case_replacement(
           SubSeq(text, starts[1], starts[1] + Len(mistake) - 1), correction) >>

\* The pairs of one lexicon entry, one per match, left to right.
entry_corrections(text, mistake, correction) ==
  LET starts == re_finditer(text, mistake, 1)
  IN  [k \in 1..Len(starts) |->
         case_replacement(
           SubSeq(text, starts[k], starts[k] + Len(mistake) - 1), correction)]

\* Variant: re.sub with count=1, only the first instance is replaced.
replace_first_instance(text, mistake, correction) ==
  Splice(text, <<Head(re_finditer(text, mistake, 1))>>, Len(mistake), correction, 1)

\* Variant: the replacement takes the case of the first match.
replace_instances_cased(text, mistake, correction) ==
  LET first == Head(re_finditer(text, mistake, 1))
  IN  re_sub(text, mistake, case_replacement(<<text[first]>>, correction)[2])

\* "Replace all instances of the mistake".
replace_instances(text, mistake, correction) ==
  re_sub(text, mistake, correction)

\* The loop over the lexicon from entry k on; st = [text, corrections].
RECURSIVE spell_loop(_, _)
spell_loop(st, k) ==
  IF k > Len(COMMON_SPELLING_MISTAKES)
  THEN st
  ELSE LET mistake == COMMON_SPELLING_MISTAKES[k][1]
           correction == COMMON_SPELLING_MISTAKES[k][2]
       IN  IF re_search(st.text, mistake)
           THEN spell_loop(
                  [text |-> replace_instances(st.text, mistake, correction),
                   corrections |->
                     st.corrections
                       \o entry_corrections(st.text, mistake, correction)],
                  k + 1)
           ELSE spell_loop(st, k + 1)

\* check_spelling(text) = <<corrected_text, corrections>>
check_spelling(text) ==
  LET st == spell_loop([text |-> text, corrections |-> <<>>], 1)
  IN  <<st.text, st.corrections>>

----------------------------------------------------------------------------
(* enhance_text                                                            *)

WEAK_WORDS ==
  << Chars("very"), Chars("really"), Chars("just"), Chars("quite"), Chars("basically"),
     Chars("actually"), Chars("simply"), Chars("nice"), Chars("good"), Chars("bad"),
     Chars("great"), Chars("like"), Chars("thing"), Chars("stuff"), Chars("etc"),
     Chars("a lot"), Chars("got"), Chars("kind of"), Chars("sort of"), Chars("type of"),
     Chars("feel"), Chars("think"), Chars("believe"), Chars("hope"), Chars("pretty"),
     Chars("guess"), Chars("maybe"), Chars("perhaps"), Chars("seems"), Chars("appeared to"),
     Chars("tried to") >>

RESUME_CLICHES ==
  << Chars("team player"), Chars("detail-oriented"), Chars("self-starter"),
     Chars("hard worker"), Chars("results-driven"), Chars("go-getter"),
     Chars("think outside the box"), Chars("synergy"), Chars("proactive"),
     Chars("go-to person"), Chars("dynamic"), Chars("solution-driven"),
     Chars("multitasker"), Chars("excellent communication skills"),
     Chars("track record of success"), Chars("bottom line"), Chars("value-added"),
     Chars("win-win"), Chars("cutting edge"), Chars("best of breed"),
     Chars("results-oriented"), Chars("fast-paced environment"),
     Chars("think outside the box"), Chars("synergize"), Chars("hit the ground running") >>

\* The categories of ACTION_VERBS in dict (insertion) order.
ACTION_VERB_CATEGORIES ==
  << "management", "communication", "research", "technical", "teaching", "creative", "financial" >>

ACTION_VERBS ==
  [ management |->
      << Chars("Administered"), Chars("Analyzed"), Chars("Assigned"), Chars("Attained"),
         Chars("Chaired"), Chars("Consolidated"), Chars("Contracted"), Chars("Coordinated"),
         Chars("Delegated"), Chars("Developed"), Chars("Directed"), Chars("Evaluated"),
         Chars("Executed"), Chars("Improved"), Chars("Increased"), Chars("Organized"),
         Chars("Oversaw"), Chars("Planned"), Chars("Prioritized"), Chars("Produced"),
         Chars("Recommended"), Chars("Reviewed"), Chars("Scheduled"), Chars("Strengthened"),
         Chars("Supervised") >>,
    communication |->
      << Chars("Addressed"), Chars("Arbitrated"), Chars("Arranged"), Chars("Authored"),
         Chars("Collaborated"), Chars("Convinced"), Chars("Corresponded"), Chars("Developed"),
         Chars("Directed"), Chars("Drafted"), Chars("Edited"), Chars("Enlisted"),
         Chars("Formulated"), Chars("Influenced"), Chars("Interpreted"), Chars("Lectured"),
         Chars("Mediated"), Chars("Moderated"), Chars("Negotiated"), Chars("Persuaded"),
         Chars("Promoted"), Chars("Publicized"), Chars("Reconciled"), Chars("Recruited"),
         Chars("Translated") >>,
    research |->
      << Chars("Analyzed"), Chars("Clarified"), Chars("Collected"), Chars("Compared"),
         Chars("Conducted"), Chars("Critiqued"), Chars("Detected"), Chars("Determined"),
         Chars("Diagnosed"), Chars("Evaluated"), Chars("Examined"), Chars("Extracted"),
         Chars("Identified"), Chars("Inspected"), Chars("Interpreted"), Chars("Interviewed"),
         Chars("Investigated"), Chars("Organized"), Chars("Reviewed"), Chars("Summarized"),
         Chars("Surveyed"), Chars("Systematized"), Chars("Tested"), Chars("Validated"),
         Chars("Verified") >>,
    technical |->
      << Chars("Assembled"), Chars("Built"), Chars("Calculated"), Chars("Computed"),
         Chars("Designed"), Chars("Devised"), Chars("Engineered"), Chars("Fabricated"),
         Chars("Maintained"), Chars("Operated"), Chars("Optimized"), Chars("Overhauled"),
         Chars("Programmed"), Chars("Redesigned"), Chars("Reduced"), Chars("Remodeled"),
         Chars("Repaired"), Chars("Solved"), Chars("Standardized"), Chars("Upgraded") >>,
    teaching |->
      << Chars("Adapted"), Chars("Advised"), Chars("Clarified"), Chars("Coached"),
         Chars("Communicated"), Chars("Coordinated"), Chars("Developed"), Chars("Enabled"),
         Chars("Encouraged"), Chars("Evaluated"), Chars("Explained"), Chars("Facilitated"),
         Chars("Guided"), Chars("Informed"), Chars("Instructed"), Chars("Persuaded"),
         Chars("Set goals"), Chars("Stimulated"), Chars("Taught"), Chars("Trained") >>,
    creative |->
      << Chars("Acted"), Chars("Composed"), Chars("Conceived"), Chars("Conceptualized"),
         Chars("Created"), Chars("Customized"), Chars("Designed"), Chars("Developed"),
         Chars("Directed"), Chars("Established"), Chars("Fashioned"), Chars("Founded"),
         Chars("Illustrated"), Chars("Initiated"), Chars("Instituted"), Chars("Integrated"),
         Chars("Introduced"), Chars("Invented"), Chars("Originated"), Chars("Performed"),
         Chars("Planned"), Chars("Revitalized"), Chars("Shaped"), Chars("Visualized") >>,
    financial |->
      << Chars("Administered"), Chars("Allocated"), Chars("Analyzed"), Chars("Appraised"),
         Chars("Audited"), Chars("Balanced"), Chars("Budgeted"), Chars("Calculated"),
         Chars("Computed"), Chars("Developed"), Chars("Forecasted"), Chars("Managed"),
         Chars("Marketed"), Chars("Planned"), Chars("Projected"), Chars("Researched"),
         Chars("Reduced"), Chars("Tracked"), Chars("Quantified"), Chars("Verified") >> ]

REMOVED ==
  Chars("(removed)")

CLICHE_NOTE ==
  Chars("Consider replacing with more specific achievements")

BULLET_TARGET ==
  Chars("Bullet point: ")

VERB_NOTE ==
  Chars("Consider starting with an action verb like '")

\* Variant: one "(removed)" enhancement per occurrence deleted.
weak_remove_each(st, weak_word) ==
  [text |-> re_sub(st.text, weak_word, <<>>),
   enhancements |->
     st.enhancements
       \o [n \in 1..Len(re_finditer(st.text, weak_word, 1)) |-> <<weak_word, REMOVED>>]]

\* "Just remove the weak word rather than replace it"; st = [text, enhancements].
weak_remove(st, weak_word) ==
  [text |-> re_sub(st.text, weak_word, <<>>),
   enhancements |-> Append(st.enhancements, <<weak_word, REMOVED>>)]

\* The loop over WEAK_WORDS from entry k on.
RECURSIVE weak_loop(_, _)
weak_loop(st, k) ==
  IF k > Len(WEAK_WORDS)
  THEN st
  ELSE IF re_search(st.text, WEAK_WORDS[k])
       THEN weak_loop(weak_remove(st, WEAK_WORDS[k]), k + 1)
       ELSE weak_loop(st, k + 1)

\* Variant: the cliche is also cut out of the text.
cliche_flag_cutting(st, cliche) ==
  LET at == Min({i \in 1..(Len(st.text) - Len(cliche) + 1) :
                   SubSeq(lower(st.text), i, i + Len(cliche) - 1) = cliche})
  IN  [text |-> Splice(st.text, <<at>>, Len(cliche), <<>>, 1),
       enhancements |-> Append(st.enhancements, <<cliche, CLICHE_NOTE>>)]

\* "Suggest removing the cliche": the text is left alone.
cliche_flag(st, cliche) ==
  [text |-> st.text,
   enhancements |-> Append(st.enhancements, <<cliche, CLICHE_NOTE>>)]

\* The loop over RESUME_CLICHES from entry k on.
RECURSIVE cliche_loop(_, _)
cliche_loop(st, k) ==
  IF k > Len(RESUME_CLICHES)
  THEN st
  ELSE IF Contains(lower(st.text), RESUME_CLICHES[k])
       THEN cliche_loop(cliche_flag(st, RESUME_CLICHES[k]), k + 1)
       ELSE cliche_loop(st, k + 1)

\* line.strip().startswith of one of the three bullet markers.
is_bullet(line) ==
  LET s == strip(line)
  IN  s # <<>> /\ s[1] \in {Dot, "-", "*"}

\* line.strip()[1:].strip()
bullet_content(line) ==
  strip(Tail(strip(line)))

\* any(verb.lower() == words[0].lower().rstrip(',.:;') for every verb)
starts_with_action_verb(words) ==
  LET first == rstrip(lower(words[1]), {",", ".", ":", ";"})
  IN  \E c \in DOMAIN ACTION_VERBS : \E n \in 1..Len(ACTION_VERBS[c]) :
        lower(ACTION_VERBS[c][n]) = first

\* category_scores[category]: the verbs of the category found in the content.
category_score(category, content) ==
  LET where == lower(content)
  IN  Cardinality({n \in 1..Len(ACTION_VERBS[category]) :
                     Contains(where, lower(ACTION_VERBS[category][n]))})

\* category_scores, as the sequence of scores in dict order.
category_scores(content) ==
  LET c1 == category_score(ACTION_VERB_CATEGORIES[1], content)
      c2 == category_score(ACTION_VERB_CATEGORIES[2], content)
      c3 == category_score(ACTION_VERB_CATEGORIES[3], content)
      c4 == category_score(ACTION_VERB_CATEGORIES[4], content)
      c5 == category_score(ACTION_VERB_CATEGORIES[5], content)
      c6 == category_score(ACTION_VERB_CATEGORIES[6], content)
      c7 == category_score(ACTION_VERB_CATEGORIES[7], content)
  IN  <<c1, c2, c3, c4, c5, c6, c7>>

\* Variant: max() keeping the last of the best categories.
pick_max_last(scores) ==
  Max({k \in 1..Len(scores) : \A j \in 1..Len(scores) : scores[j] <= scores[k]})

\* max(category_scores.items(), key=score): the first entry, in dict order,
\* that no other entry beats.
pick_max(scores) ==
  Min({k \in 1..Len(scores) : \A j \in 1..Len(scores) : scores[j] <= scores[k]})

suggested_category(content) ==
  ACTION_VERB_CATEGORIES[pick_max(category_scores(content))]

\* random.choice(seq) when the generator yields draw.
random_choice(seq, draw) ==
  seq[(draw % Len(seq)) + 1]

\* The loop over the lines from line i on: for each bullet line that gets
\* a suggestion, its content and its suggested category.
RECURSIVE unverbed_bullets(_, _)
unverbed_bullets(lines, i) ==
  IF i > Len(lines)
  THEN <<>>
  ELSE (IF is_bullet(lines[i])
        THEN LET content == bullet_content(lines[i])
                 words == split(content)
             IN  IF words # <<>> /\ ~starts_with_action_verb(words)
                 THEN <<[content |-> content,
                         category |-> suggested_category(content)]>>
                 ELSE <<>>
        ELSE <<>>)
         \o unverbed_bullets(lines, i + 1)

\* The enhancement appended for one bullet.
verb_enhancement(bullet, draw) ==
  << BULLET_TARGET \o bullet.content,
     VERB_NOTE \o random_choice(ACTION_VERBS[bullet.category], draw) \o <<"'">> >>

\* The values random.choice may be given by the generator.
MaxRandom ==
  2

\* enhance_text(text): the results <<enhanced_text, enhancements>> it may
\* return, one for each way the generator answers its random.choice calls.
enhance_text(text) ==
  LET weak == weak_loop([text |-> text, enhancements |-> <<>>], 1)
      flagged == cliche_loop(weak, 1)
      bullets == unverbed_bullets(split_lines(flagged.text), 1)
  IN  { << flagged.text,
           flagged.enhancements
             \o [n \in 1..Len(bullets) |-> verb_enhancement(bullets[n], draws[n])] >> :
          draws \in [1..Len(bullets) -> 0..(MaxRandom - 1)] }

----------------------------------------------------------------------------
(* The enhancement state machine: a text is typed piece by piece, then     *)
(* enhance_text is applied to it.                                          *)

MaxEnhancePieces ==
  2

EnhancePieces ==
  { Chars("I was really happy to just help\n"),
    Chars("Just REALLY kind of "),
    Chars(" - Very\n"),
    Chars("- developed, think outside the box\n"),
    Chars("* a team player\n"),
    <<Dot>> \o Chars(" I designed and built\n"),
    Chars("- we reviewed\n") }

EnhanceInit ==
  /\ en_typed = 0
  /\ en_arg = <<>>
  /\ en_text = <<>>
  /\ en_enh = <<>>
  /\ en_done = FALSE

EnhanceType(piece) ==
  /\ ~en_done
  /\ en_typed < MaxEnhancePieces
  /\ en_typed' = en_typed + 1
  /\ en_arg' = en_arg \o piece
  /\ UNCHANGED <<en_text, en_enh, en_done>>
  /\ UNCHANGED <<spell_vars, ats_vars, keyword_vars, template_vars, export_vars, document_vars, app_vars, library_vars>>

Enhance ==
  /\ ~en_done
  /\ \E result \in enhance_text(en_arg) :
       en_text' = result[1] /\ en_enh' = result[2]
  /\ en_done' = TRUE
  /\ UNCHANGED <<en_typed, en_arg>>
  /\ UNCHANGED <<spell_vars, ats_vars, keyword_vars, template_vars, export_vars, document_vars, app_vars, library_vars>>

----------------------------------------------------------------------------
(* calculate_ats_score                                                     *)

\* job_keywords is None, or a list of keywords.
None ==
  {}

List(keywords) ==
  {keywords}

\* keyword_match is the literal "N/A", or a percentage.
NA ==
  [na |-> TRUE, value |-> 0]

Percent(n) ==
  [na |-> FALSE, value |-> n]

\* A suggestion is the tuple of the fragments its text is put together from.
TOO_SHORT ==
  << "Resume is too short. Aim for 400-800 words." >>

TOO_LONG ==
  << "Resume is too long. Aim for 400-800 words." >>

NO_EMAIL ==
  << "No email address detected." >>

FEW_SECTIONS ==
  << "Not enough clear section headers detected. Include clear sections for Experience, Education, Skills, etc." >>

FEW_BULLETS ==
  << "Not enough bullet points. Use bullets to highlight achievements and responsibilities." >>

LOW_OVERALL ==
  << "Overall ATS compatibility is low. Follow the suggestions to improve." >>

MODERATE_OVERALL ==
  << "Resume has moderate ATS compatibility. Make suggested improvements for better results." >>

GOOD_OVERALL ==
  << "Resume has good ATS compatibility." >>

\* f"Low keyword match with job description ({keyword_score}%). Try ..."
low_keyword_match(keyword_score) ==
  << "Low keyword match with job description (", ToString(keyword_score),
     "%). Try including more relevant keywords." >>

MIN_WORDS ==
  300

MAX_WORDS ==
  1000

SHORT_LENGTH_SCORE ==
  60

LONG_LENGTH_SCORE ==
  70

FULL_LENGTH_SCORE ==
  100

FULL_FORMAT_SCORE ==
  100

NO_EMAIL_PENALTY ==
  10

FEW_SECTIONS_PENALTY ==
  20

FEW_BULLETS_PENALTY ==
  10

MIN_SECTIONS ==
  3

MIN_BULLETS ==
  5

MIN_KEYWORD_MATCH ==
  70

MODERATE_BAND ==
  70

GOOD_BAND ==
  85

sections ==
  << Chars("experience"), Chars("education"), Chars("skills"), Chars("summary"),
     Chars("objective"), Chars("work"), Chars("contact") >>

\* len(text.split())
word_count(text) ==
  Cardinality({i \in 1..Len(text) :
                 ~IsSpace(text[i]) /\ (i = 1 \/ IsSpace(text[i - 1]))})

\* Variant: the 300-word bound is exclusive on the wrong side.
length_part_off_by_one(text) ==
  IF word_count(text) <= MIN_WORDS
  THEN [length |-> SHORT_LENGTH_SCORE, suggestions |-> <<TOO_SHORT>>]
  ELSE IF word_count(text) > MAX_WORDS
       THEN [length |-> LONG_LENGTH_SCORE, suggestions |-> <<TOO_LONG>>]
       ELSE [length |-> FULL_LENGTH_SCORE, suggestions |-> <<>>]

\* "Check length": the length sub-score and its suggestion.
length_part(text) ==
  IF word_count(text) < MIN_WORDS
  THEN [length |-> SHORT_LENGTH_SCORE, suggestions |-> <<TOO_SHORT>>]
  ELSE IF word_count(text) > MAX_WORDS
       THEN [length |-> LONG_LENGTH_SCORE, suggestions |-> <<TOO_LONG>>]
       ELSE [length |-> FULL_LENGTH_SCORE, suggestions |-> <<>>]

\* text.count('@')
count_at(text) ==
  Cardinality({i \in 1..Len(text) : text[i] = "@"})

\* Variant: the section headers are searched as substrings, not whole words.
found_sections_substring(text) ==
  Cardinality({k \in 1..Len(sections) : Contains(lower(text), sections[k])})

\* found_sections
found_sections(text) ==
  Cardinality({k \in 1..Len(sections) : re_search(text, sections[k])})

\* len(re.findall(r'•|-|\*', text))
bullets(text) ==
  Cardinality({i \in 1..Len(text) : text[i] \in {Dot, "-", "*"}})

\* "Check formatting": the format sub-score and its suggestions.
format_part(text) ==
  LET no_email == count_at(text) = 0
      few_sections == found_sections(text) < MIN_SECTIONS
      few_bullets == bullets(text) < MIN_BULLETS
      format_score ==
        FULL_FORMAT_SCORE - (IF no_email THEN NO_EMAIL_PENALTY ELSE 0)
                          - (IF few_sections THEN FEW_SECTIONS_PENALTY ELSE 0)
                          - (IF few_bullets THEN FEW_BULLETS_PENALTY ELSE 0)
  IN  [format |-> IF format_score > 0 THEN format_score ELSE 0,
       suggestions |->
         (IF no_email THEN <<NO_EMAIL>> ELSE <<>>)
           \o (IF few_sections THEN <<FEW_SECTIONS>> ELSE <<>>)
           \o (IF few_bullets THEN <<FEW_BULLETS>> ELSE <<>>)]

\* matched_keywords
matched_keywords(text, keywords) ==
  Cardinality({k \in 1..Len(keywords) : re_search(text, keywords[k])})

\* The pairs (matched, total), total <= 100, for which the float product
\* (matched / total) * 100 falls just below the integer it should be.
ROUNDED_BELOW ==
  { <<29, 50>>, <<29, 100>>, <<57, 100>>, <<58, 100>> }

\* int((matched_keywords / len(job_keywords)) * 100), in floats.
keyword_score(matched, total) ==
  IF <<matched, total>> \in ROUNDED_BELOW
  THEN ((matched * 100) \div total) - 1
  ELSE (matched * 100) \div total

\* The keywords of a job_keywords argument, none if it is None.
keywords_of(job_keywords) ==
  IF job_keywords = None THEN <<>> ELSE CHOOSE keywords \in job_keywords : TRUE

\* "Check keyword match": the keyword sub-score and its suggestion.
keyword_part(text, job_keywords) ==
  LET keywords == keywords_of(job_keywords)
  IN  IF Len(keywords) > 0
      THEN LET score == keyword_score(matched_keywords(text, keywords), Len(keywords))
           IN  [keyword_match |-> Percent(score),
                suggestions |-> IF score < MIN_KEYWORD_MATCH
                                THEN <<low_keyword_match(score)>>
                                ELSE <<>>]
      ELSE [keyword_match |-> NA, suggestions |-> <<>>]

\* Variant: the quotient is rounded up.
int_div_up(a, b) ==
  (a + b - 1) \div b

\* int(a / b) of non-negative a and b > 0.
int_div(a, b) ==
  a \div b

\* Variant: an overall score of exactly 85 is still moderate.
band_suggestion_late(overall) ==
  IF overall < MODERATE_BAND
  THEN LOW_OVERALL
  ELSE IF overall <= GOOD_BAND THEN MODERATE_OVERALL ELSE GOOD_OVERALL

\* "Add general suggestions based on overall score"
band_suggestion(overall) ==
  IF overall < MODERATE_BAND
  THEN LOW_OVERALL
  ELSE IF overall < GOOD_BAND THEN MODERATE_OVERALL ELSE GOOD_OVERALL

\* calculate_ats_score(text, job_keywords=None)
calculate_ats_score(text, job_keywords) ==
  LET len == length_part(text)
      fmt == format_part(text)
      kw == keyword_part(text, job_keywords)
      overall == IF kw.keyword_match.na
                 THEN int_div(fmt.format + len.length, 2)
                 ELSE int_div(fmt.format + len.length + kw.keyword_match.value, 3)
      band == band_suggestion(overall)
  IN  [overall |-> overall,
       keyword_match |-> kw.keyword_match,
       format |-> fmt.format,
       length |-> len.length,
       suggestions |-> len.suggestions \o fmt.suggestions \o kw.suggestions
                         \o <<band>>]

----------------------------------------------------------------------------
(* The scoring state machine: a resume text is typed, first its head piece *)
(* by piece, then a body of plain words, and calculate_ats_score is        *)
(* applied to it, without keywords or with a list of them.                 *)

MaxAtsPieces ==
  2

\* The pieces a resume head is typed from: an address, section words as
\* whole words and inside longer words, and bullet characters.
AtsPieces ==
  { Chars("a-b@c.d Work, skills\n"),
    Chars("Summary "),
    Chars("homework contact_ "),
    Chars("- * x-y ") \o <<Dot>>,
    Chars("Experience, EDUCATION - * x-y ") \o <<Dot>> \o Chars(" *\n") }

\* The numbers of words a body may have.
BodyWords ==
  {0, MIN_WORDS - 1, MIN_WORDS, MAX_WORDS, MAX_WORDS + 1}

\* A body of n words.
Body(n) ==
  [i \in 1..(2 * n) |-> IF i % 2 = 1 THEN "w" ELSE " "]

\* n times the keyword.
Repeat(keyword, n) ==
  [i \in 1..n |-> keyword]

\* The job_keywords arguments.
JobKeywords ==
  { None,
    List(<<>>),
    List(<<Chars("Work")>>),
    List(<<Chars("education"), Chars("Experience"), Chars("work"), Chars("python")>>),
    List(Repeat(Chars("work"), 29) \o Repeat(Chars("python"), 21)) }

AtsInit ==
  /\ at_typed = 0
  /\ at_filled = FALSE
  /\ at_text = <<>>
  /\ at_keywords = None
  /\ at_score = <<>>

AtsType(piece) ==
  /\ ~at_filled
  /\ at_typed < MaxAtsPieces
  /\ at_typed' = at_typed + 1
  /\ at_text' = at_text \o piece
  /\ UNCHANGED <<at_filled, at_keywords, at_score>>
  /\ UNCHANGED <<spell_vars, enhance_vars, keyword_vars, template_vars, export_vars, document_vars, app_vars, library_vars>>

AtsTypeBody(n) ==
  /\ ~at_filled
  /\ at_filled' = TRUE
  /\ at_text' = at_text \o Body(n)
  /\ UNCHANGED <<at_typed, at_keywords, at_score>>
  /\ UNCHANGED <<spell_vars, enhance_vars, keyword_vars, template_vars, export_vars, document_vars, app_vars, library_vars>>

AtsScore(job_keywords) ==
  /\ at_filled
  /\ at_score = <<>>
  /\ at_keywords' = job_keywords
  /\ at_score' = <<calculate_ats_score(at_text, job_keywords)>>
  /\ UNCHANGED <<at_typed, at_filled, at_text>>
  /\ UNCHANGED <<spell_vars, enhance_vars, keyword_vars, template_vars, export_vars, document_vars, app_vars, library_vars>>

----------------------------------------------------------------------------
(* extract_keywords_from_job_description                                   *)

\* str.split(sep): the parts between the separators, the empty ones included.
RECURSIVE split_on_from(_, _, _)
split_on_from(t, sep, i) ==
  LET breaks == {j \in i..Len(t) : t[j] = sep}
  IN  IF breaks = {}
      THEN <<SubSeq(t, i, Len(t))>>
      ELSE <<SubSeq(t, i, Min(breaks) - 1)>> \o split_on_from(t, sep, Min(breaks) + 1)

split_on(t, sep) ==
  split_on_from(t, sep, 1)

\* The reply of the generative service to requests.post: the call raises
\* (no connection, timeout), or answers with a status and a body; the body
\* is JSON or not, a JSON object or not, with a "response" text or without.
Reply(raises, status, json, object, has_response, response) ==
  [raises |-> raises, status |-> status, json |-> json, object |-> object,
   has_response |-> has_response, response |-> response]

\* What a block of statements ends in: it returns a value, it raises an
\* error, or it runs through to the statement after it.
Returns(value) ==
  [outcome |-> "return", error |-> "", value |-> value]

Raises(error) ==
  [outcome |-> "raise", error |-> error, value |-> <<>>]

RunsThrough ==
  [outcome |-> "through", error |-> "", value |-> <<>>]

STATUS_OK ==
  200

SERVICE_TOP ==
  20

HEURISTIC_TOP ==
  20

MIN_KEYWORD_LENGTH ==
  2

SINGLE_WEIGHT ==
  1

PAIR_WEIGHT ==
  3

\* [k.strip() for k in keywords_text.split(',')], without the empty entries.
parse_keywords(keywords_text) ==
  LET parts == split_on(keywords_text, ",")
      stripped == [k \in 1..Len(parts) |-> strip(parts[k])]
      filled(k) == k # <<>>
  IN  SelectSeq(stripped, filled)

\* keywords[:n]
first_n(keywords, n) ==
  SubSeq(keywords, 1, IF Len(keywords) < n THEN Len(keywords) ELSE n)

\* Variant: an answer with another status returns no keywords.
service_keywords_or_none(reply) ==
  IF reply.raises
  THEN Raises("RequestException")
  ELSE IF reply.status = STATUS_OK /\ reply.json /\ reply.object
       THEN Returns(first_n(parse_keywords(
                      IF reply.has_response THEN reply.response ELSE <<>>), SERVICE_TOP))
       ELSE Returns(<<>>)

\* The body of the try statement.
service_keywords(reply) ==
  IF reply.raises
  THEN Raises("RequestException")
  ELSE IF reply.status = STATUS_OK
       THEN IF ~reply.json
            THEN Raises("JSONDecodeError")
            ELSE IF ~reply.object
                 THEN Raises("AttributeError")
                 ELSE LET keywords_text ==
                            IF reply.has_response THEN reply.response ELSE <<>>
                      IN  Returns(first_n(parse_keywords(keywords_text), SERVICE_TOP))
       ELSE RunsThrough

\* "except: pass"
except_pass(attempt) ==
  IF attempt.outcome = "raise" THEN RunsThrough ELSE attempt

common_words ==
  { Chars("a"), Chars("an"), Chars("the"), Chars("and"), Chars("or"), Chars("but"),
    Chars("is"), Chars("are"), Chars("was"), Chars("were"), Chars("be"), Chars("been"),
    Chars("being"), Chars("in"), Chars("on"), Chars("at"), Chars("by"), Chars("for"),
    Chars("with"), Chars("about"), Chars("against"), Chars("between"),
    Chars("into"), Chars("through"), Chars("during"), Chars("before"), Chars("after"),
    Chars("above"), Chars("below"), Chars("to"), Chars("from"),
    Chars("up"), Chars("down"), Chars("of"), Chars("off"), Chars("over"), Chars("under"),
    Chars("again"), Chars("further"), Chars("then"), Chars("once"),
    Chars("here"), Chars("there"), Chars("when"), Chars("where"), Chars("why"),
    Chars("how"), Chars("all"), Chars("any"), Chars("both"), Chars("each"),
    Chars("few"), Chars("more"), Chars("most"), Chars("other"), Chars("some"),
    Chars("such"), Chars("no"), Chars("nor"), Chars("not"), Chars("only"),
    Chars("own"), Chars("same"), Chars("so"), Chars("than"), Chars("too"), Chars("very"),
    Chars("s"), Chars("t"), Chars("can"), Chars("will"), Chars("just"),
    Chars("don"), Chars("should"), Chars("now"), Chars("you"), Chars("we"), Chars("our"),
    Chars("company"), Chars("position"), Chars("job"), Chars("role"),
    Chars("candidate"), Chars("applicant"), Chars("ideal"), Chars("looking"),
    Chars("must"), Chars("required"), Chars("preferred"),
    Chars("responsibilities"), Chars("qualifications"), Chars("requirements"),
    Chars("ability"), Chars("experience"),
    Chars("work"), Chars("working"), Chars("team"), Chars("strong"), Chars("excellent"),
    Chars("include"), Chars("including") }

\* The regex class [a-zA-Z].
LETTERS ==
  Range(LOWER) \cup Range(UPPER)

\* The regex class [a-zA-Z+#.].
TOKEN_CHARS ==
  LETTERS \cup {"+", "#", "."}

\* re.findall(r'\b[a-zA-Z][a-zA-Z+#.]*\b', t) from position i on: a match
\* starts at a letter on a word boundary, takes the longest run of the class
\* after which a word boundary stands, and the search goes on behind it.
RECURSIVE findall_tokens(_, _)
findall_tokens(t, i) ==
  LET starts == {j \in i..Len(t) : t[j] \in LETTERS /\ WordBoundary(t, j)}
  IN  IF starts = {}
      THEN <<>>
      ELSE LET b == Min(starts)
               stop == Min({j \in (b + 1)..(Len(t) + 1) :
                              j = Len(t) + 1 \/ t[j] \notin TOKEN_CHARS})
               ends == {e \in b..(stop - 1) : WordBoundary(t, e + 1)}
           IN  IF ends = {}
               THEN findall_tokens(t, b + 1)
               ELSE <<SubSeq(t, b, Max(ends))>> \o findall_tokens(t, Max(ends) + 1)

\* potential_keywords
potential_keywords(words) ==
  LET kept(word) == word \notin common_words /\ Len(word) > MIN_KEYWORD_LENGTH
  IN  SelectSeq(words, kept)

\* term in word_counts; the table keeps its terms in the order they were
\* inserted.
has_term(word_counts, term) ==
  \E j \in 1..Len(word_counts) : word_counts[j].term = term

\* word_counts[term] += weight
add_to_term(word_counts, term, weight) ==
  [j \in 1..Len(word_counts) |->
     IF word_counts[j].term = term
     THEN [word_counts[j] EXCEPT !.count = @ + weight]
     ELSE word_counts[j]]

\* word_counts[term] = weight, for a new term
new_term(word_counts, term, weight) ==
  Append(word_counts, [term |-> term, count |-> weight])

\* "Count word frequency", from the k-th potential keyword on.
RECURSIVE count_words(_, _, _)
count_words(word_counts, words, k) ==
  IF k > Len(words)
  THEN word_counts
  ELSE IF has_term(word_counts, words[k])
       THEN count_words(add_to_term(word_counts, words[k], SINGLE_WEIGHT), words, k + 1)
       ELSE count_words(new_term(word_counts, words[k], SINGLE_WEIGHT), words, k + 1)

\* word_pairs
word_pairs(job_description) ==
  LET words == split(lower(job_description))
      places == [i \in 1..(Len(words) - 1) |-> i]
      paired(i) == words[i] \notin common_words /\ words[i + 1] \notin common_words
      chosen == SelectSeq(places, paired)
  IN  [k \in 1..Len(chosen) |-> words[chosen[k]] \o <<" ">> \o words[chosen[k] + 1]]

\* "Count pair frequency", from the k-th pair on.
RECURSIVE count_pairs(_, _, _)
count_pairs(word_counts, pairs, k) ==
  IF k > Len(pairs)
  THEN word_counts
  ELSE IF has_term(word_counts, pairs[k])
       THEN count_pairs(add_to_term(word_counts, pairs[k], PAIR_WEIGHT), pairs, k + 1)
       ELSE count_pairs(new_term(word_counts, pairs[k], PAIR_WEIGHT), pairs, k + 1)

\* Variant: among equal counts the later term comes first.
sorted_by_count_unstable(word_counts) ==
  LET place(j) ==
        Cardinality({i \in 1..Len(word_counts) :
                       word_counts[i].count > word_counts[j].count
                         \/ (word_counts[i].count = word_counts[j].count /\ i > j)}) + 1
  IN  [p \in 1..Len(word_counts) |->
         word_counts[CHOOSE j \in 1..Len(word_counts) : place(j) = p]]

\* sorted(word_counts.items(), key=lambda x: x[1], reverse=True): by count,
\* largest first, items of equal count in the order of the table.
sorted_by_count(word_counts) ==
  LET place(j) ==
        Cardinality({i \in 1..Len(word_counts) :
                       word_counts[i].count > word_counts[j].count
                         \/ (word_counts[i].count = word_counts[j].count /\ i < j)}) + 1
  IN  [p \in 1..Len(word_counts) |->
         word_counts[CHOOSE j \in 1..Len(word_counts) : place(j) = p]]

\* The "simple extraction" the function falls back to.
heuristic_keywords(job_description) ==
  LET words == findall_tokens(lower(job_description), 1)
      singles == count_words(<<>>, potential_keywords(words), 1)
      word_counts == count_pairs(singles, word_pairs(job_description), 1)
      sorted_keywords == first_n(sorted_by_count(word_counts), HEURISTIC_TOP)
  IN  [k \in 1..Len(sorted_keywords) |-> sorted_keywords[k].term]

\* extract_keywords_from_job_description(job_description) when the service
\* gives the reply: what the call ends in.
extract_keywords_from_job_description(job_description, reply) ==
  LET attempt == except_pass(service_keywords(reply))
  IN  IF attempt.outcome = "through"
      THEN Returns(heuristic_keywords(job_description))
      ELSE attempt

----------------------------------------------------------------------------
(* The keyword state machine: a job description is typed piece by piece,   *)
(* and extract_keywords_from_job_description is called on it, twice at     *)
(* most, the generative service answering each call in one of its ways.    *)

MaxJobPieces ==
  2

\* The pieces of a job description: stop words and punctuation, a repeated
\* pair, tokens with '+', '#', '.', digits and '_', a word met three times,
\* and more different words than the function returns.
JobPieces ==
  { Chars("Python and SQL, python. "),
    Chars("Machine learning: machine learning "),
    Chars("C++11 asp.net. node.js x_ray go sql sql sql "),
    Chars("the team must docker kubernetes aws azure gcp linux git java rust scala perl ruby ") }

\* The ways the service answers a call.
Replies ==
  { Reply(TRUE, 0, FALSE, FALSE, FALSE, <<>>),
    Reply(FALSE, 500, TRUE, TRUE, FALSE, <<>>),
    Reply(FALSE, 201, TRUE, TRUE, TRUE, Chars("rust")),
    Reply(FALSE, 200, FALSE, FALSE, FALSE, <<>>),
    Reply(FALSE, 200, TRUE, FALSE, FALSE, <<>>),
    Reply(FALSE, 200, TRUE, TRUE, FALSE, <<>>),
    Reply(FALSE, 200, TRUE, TRUE, TRUE, Chars("Python, SQL ,, unit tests , ")),
    Reply(FALSE, 200, TRUE, TRUE, TRUE,
          Chars("a,b,c,d,e,f,g,h,i,j,k,l,m,n,o,p,q,r,s,t,u,v")) }

KeywordInit ==
  /\ kw_typed = 0
  /\ kw_text = <<>>
  /\ kw_replies = <<>>
  /\ kw_results = <<>>

KeywordType(piece) ==
  /\ kw_results = <<>>
  /\ kw_typed < MaxJobPieces
  /\ kw_typed' = kw_typed + 1
  /\ kw_text' = kw_text \o piece
  /\ UNCHANGED <<kw_replies, kw_results>>
  /\ UNCHANGED <<spell_vars, enhance_vars, ats_vars, template_vars, export_vars, document_vars, app_vars, library_vars>>

KeywordExtract(reply) ==
  /\ Len(kw_results) < 2
  /\ kw_replies' = Append(kw_replies, reply)
  /\ kw_results' = Append(kw_results, extract_keywords_from_job_description(kw_text, reply))
  /\ UNCHANGED <<kw_typed, kw_text>>
  /\ UNCHANGED <<spell_vars, enhance_vars, ats_vars, template_vars, export_vars, document_vars, app_vars, library_vars>>

----------------------------------------------------------------------------
(* The templates (src/resume_templates.py).  A template is the sequence of *)
(* its literal texts and its replacement fields {key}.                     *)

Text(s) ==
  [field |-> FALSE, key |-> "", text |-> Chars(s)]

Field(key) ==
  [field |-> TRUE, key |-> key, text |-> <<>>]

MODERN_TEMPLATE ==
  << Text("\n# "), Field("name"), Text("\n**"), Field("job_role"),
    Text("** | "), Field("email"), Text(" | "), Field("phone"), Text(" | "),
    Field("location"), Text("\n\n## SUMMARY\n"), Field("summary"),
    Text("\n\n## SKILLS\n"), Field("skills"), Text("\n\n## EXPERIENCE\n"),
    Field("experience"), Text("\n\n## EDUCATION\n"), Field("education"),
    Text("\n\n## CONTACT\nEmail: "), Field("email"), Text("\nPhone: "),
    Field("phone"), Text("\nLocation: "), Field("location"), Text("\n"),
    Field("links"), Text("\n") >>

CLASSIC_TEMPLATE ==
  << Text("\n"), Field("name"), Text("\n====================\n"),
    Field("job_role"), Text("\nContact: "), Field("email"), Text(" | "),
    Field("phone"), Text(" | "), Field("location"),
    Text("\n\nSUMMARY\n--------------------\n"), Field("summary"),
    Text("\n\nSKILLS\n--------------------\n"), Field("skills"),
    Text("\n\nEXPERIENCE\n--------------------\n"), Field("experience"),
    Text("\n\nEDUCATION\n--------------------\n"), Field("education"),
    Text("\n\nCONTACT INFORMATION\n--------------------\nEmail: "),
    Field("email"), Text("\nPhone: "), Field("phone"), Text("\nAddress: "),
    Field("location"), Text("\n"), Field("links"), Text("\n") >>

MINIMALIST_TEMPLATE ==
  << Text("\n# "), Field("name"), Text("\n"), Field("job_role"), Text(" | "),
    Field("location"), Text("\n\n**About Me**\n"), Field("summary"),
    Text("\n\n**Skills**\n"), Field("skills"), Text("\n\n**Experience**\n"),
    Field("experience"), Text("\n\n**Education**\n"), Field("education"),
    Text("\n\n**Contact**\n"), Field("email"), Text(" | "), Field("phone"),
    Text("\n"), Field("links"), Text("\n") >>

DARK_TEMPLATE ==
  << Text("\n# "), Field("name"), Text("\n## "), Field("job_role"),
    Text("\n*"), Field("location"), Text("*\n\n### PROFESSIONAL SUMMARY\n"),
    Field("summary"), Text("\n\n### TECHNICAL SKILLS\n"), Field("skills"),
    Text("\n\n### PROFESSIONAL EXPERIENCE\n"), Field("experience"),
    Text("\n\n### EDUCATION\n"), Field("education"),
    Text("\n\n### CONTACT INFORMATION\n- Email: "), Field("email"),
    Text("\n- Phone: "), Field("phone"), Text("\n- Location: "),
    Field("location"), Text("\n"), Field("links"), Text("\n") >>

\* Variant: the name is looked up as it is written.
get_template_exact(template_name, dark_mode) ==
  IF dark_mode /\ template_name # Chars("dark")
  THEN DARK_TEMPLATE
  ELSE IF template_name = Chars("modern") THEN MODERN_TEMPLATE
  ELSE IF template_name = Chars("classic") THEN CLASSIC_TEMPLATE
  ELSE IF template_name = Chars("minimalist") THEN MINIMALIST_TEMPLATE
  ELSE IF template_name = Chars("dark") THEN DARK_TEMPLATE
  ELSE MODERN_TEMPLATE

\* get_template(template_name="modern", dark_mode=False)
get_template(template_name, dark_mode) ==
  IF dark_mode /\ lower(template_name) # Chars("dark")
  THEN DARK_TEMPLATE
  ELSE IF lower(template_name) = Chars("modern") THEN MODERN_TEMPLATE
  ELSE IF lower(template_name) = Chars("classic") THEN CLASSIC_TEMPLATE
  ELSE IF lower(template_name) = Chars("minimalist") THEN MINIMALIST_TEMPLATE
  ELSE IF lower(template_name) = Chars("dark") THEN DARK_TEMPLATE
  ELSE MODERN_TEMPLATE

\* The keyword arguments of a format_resume call: the field values given,
\* by key, and dark_mode, <<>> when it is not given.
Kwargs(fields, dark_mode) ==
  [fields |-> fields, dark_mode |-> dark_mode]

\* kwargs.pop('dark_mode', False)
pop_dark_mode(kwargs) ==
  IF kwargs.dark_mode = <<>> THEN FALSE ELSE kwargs.dark_mode[1]

\* defaults
defaults ==
  [key \in {"name", "job_role", "summary", "skills", "experience", "education",
            "email", "phone", "location", "links"} |-> <<>>]

\* Variant: only the values given are kept, without the defaults.
update_given_only(fields) ==
  [key \in DOMAIN defaults \cap DOMAIN fields |-> fields[key]]

\* "Update defaults with provided values"
update_defaults(fields) ==
  [key \in DOMAIN defaults |->
     IF key \in DOMAIN fields THEN fields[key] ELSE defaults[key]]

\* '\n'.join(lines)
RECURSIVE join_lines(_)
join_lines(lines) ==
  IF Len(lines) = 0 THEN <<>>
  ELSE IF Len(lines) = 1 THEN lines[1]
  ELSE lines[1] \o <<"\n">> \o join_lines(Tail(lines))

\* Variant: the segments are not stripped.
bullet_skills_unstripped(skills) ==
  LET skills_list == split_on(skills, ",")
  IN  join_lines([k \in 1..Len(skills_list) |-> Chars("- ") \o skills_list[k]])

\* formatted_skills
bullet_skills(skills) ==
  LET parts == split_on(skills, ",")
      skills_list == [k \in 1..Len(parts) |-> strip(parts[k])]
  IN  join_lines([k \in 1..Len(skills_list) |-> Chars("- ") \o skills_list[k]])

\* "Format skills as bullet points if they're comma-separated"
format_skills(values) ==
  IF "," \in Range(values["skills"])
  THEN [values EXCEPT !["skills"] = bullet_skills(values["skills"])]
  ELSE values

\* template.format(**values) from the k-th item on: a field without a value
\* raises KeyError.
RECURSIVE str_format(_, _, _)
str_format(template, values, k) ==
  IF k > Len(template)
  THEN Returns(<<>>)
  ELSE IF template[k].field /\ template[k].key \notin DOMAIN values
       THEN Raises("KeyError")
       ELSE LET rest == str_format(template, values, k + 1)
                here == IF template[k].field
                        THEN values[template[k].key]
                        ELSE template[k].text
            IN  IF rest.outcome = "raise" THEN rest ELSE Returns(here \o rest.value)

\* format_resume(template_name, **kwargs): what the call ends in.
format_resume(template_name, kwargs) ==
  LET dark_mode == pop_dark_mode(kwargs)
      template == get_template(template_name, dark_mode)
      values == update_defaults(kwargs.fields)
  IN  IF "skills" \notin DOMAIN values
      THEN Raises("KeyError")
      ELSE str_format(template, format_skills(values), 1)

----------------------------------------------------------------------------
(* The template state machine: field values and dark_mode are given as     *)
(* keyword arguments, and format_resume is called with a template name.    *)

MaxFields ==
  2

\* The template names a caller writes.
TemplateNames ==
  { Chars("modern"), Chars("Classic"), Chars("MINIMALIST"), Chars("dark"),
    Chars("DARK"), Chars("fancy"), Chars("") }

\* The keys a caller gives values for; "hobby" is no field of a resume.
GivenKeys ==
  {"name", "skills", "email", "links", "hobby"}

\* The values a caller gives for a key.
GivenValues(key) ==
  IF key = "name" THEN {Chars("Ann Lee")}
  ELSE IF key = "skills"
       THEN {Chars("Python"), Chars(" Python,SQL , unit tests,,"), Chars(",")}
  ELSE IF key = "email" THEN {Chars("a@b.c")}
  ELSE IF key = "links" THEN {Chars("x.y/z"), Chars("")}
  ELSE {Chars("chess")}

TemplateInit ==
  /\ tp_fields = [key \in {} |-> <<>>]
  /\ tp_dark = <<>>
  /\ tp_call = <<>>

TemplateGive(key, value) ==
  /\ tp_call = <<>>
  /\ key \notin DOMAIN tp_fields
  /\ Cardinality(DOMAIN tp_fields) < MaxFields
  /\ tp_fields' = [k \in DOMAIN tp_fields \cup {key} |->
                     IF k = key THEN value ELSE tp_fields[k]]
  /\ UNCHANGED <<tp_dark, tp_call>>
  /\ UNCHANGED <<spell_vars, enhance_vars, ats_vars, keyword_vars, export_vars, document_vars, app_vars, library_vars>>

TemplateDarkMode(dark_mode) ==
  /\ tp_call = <<>>
  /\ tp_dark = <<>>
  /\ tp_dark' = <<dark_mode>>
  /\ UNCHANGED <<tp_fields, tp_call>>
  /\ UNCHANGED <<spell_vars, enhance_vars, ats_vars, keyword_vars, export_vars, document_vars, app_vars, library_vars>>

TemplateFormat(template_name) ==
  /\ tp_call = <<>>
  /\ LET kwargs == Kwargs(tp_fields, tp_dark)
     IN  tp_call' = << [template_name |-> template_name,
                        template |-> get_template(template_name, pop_dark_mode(kwargs)),
                        result |-> format_resume(template_name, kwargs)] >>
  /\ UNCHANGED <<tp_fields, tp_dark>>
  /\ UNCHANGED <<spell_vars, enhance_vars, ats_vars, keyword_vars, export_vars, document_vars, app_vars, library_vars>>

----------------------------------------------------------------------------
(* save_as_html (src/resume_export.py).  The markdown library and the file *)
(* system are outside the program: what markdown.markdown answers and how  *)
(* the opening and the writing of the file end are inputs of the call.     *)

\* f"<pre>{resume_text}</pre>"
plain_html(resume_text) ==
  Chars("<pre>") \o resume_text \o Chars("</pre>")

\* The fallback document up to the text (lines 63-74).
PRE_SHELL_HEAD ==
  Chars("<!DOCTYPE html>\n")
    \o Chars("<html>\n")
    \o Chars("<head>\n")
    \o Chars("    <title>Resume</title>\n")
    \o Chars("    <meta charset=\"UTF-8\">\n")
    \o Chars("    <style>\n")
    \o Chars("        body { font-family: Arial, sans-serif; line-height: 1.6; padding: 20px; }\n")
    \o Chars("        pre { white-space: pre-wrap; }\n")
    \o Chars("    </style>\n")
    \o Chars("</head>\n")
    \o Chars("<body>\n")
    \o Chars("    ")

\* The fallback document after the text (lines 74-76).
PRE_SHELL_TAIL ==
  Chars("\n")
    \o Chars("</body>\n")
    \o Chars("</html>")

\* css, dark mode
DARK_CSS ==
  Chars("\n")
    \o Chars("        body {\n")
    \o Chars("            font-family: 'Segoe UI', Arial, sans-serif;\n")
    \o Chars("            line-height: 1.6;\n")
    \o Chars("            padding: 40px;\n")
    \o Chars("            max-width: 800px;\n")
    \o Chars("            margin: 0 auto;\n")
    \o Chars("            background-color: #121212;\n")
    \o Chars("            color: #e0e0e0;\n")
    \o Chars("        }\n")
    \o Chars("        h1, h2, h3 {\n")
    \o Chars("            color: #bb86fc;\n")
    \o Chars("        }\n")
    \o Chars("        a {\n")
    \o Chars("            color: #03dac6;\n")
    \o Chars("            text-decoration: none;\n")
    \o Chars("        }\n")
    \o Chars("        a:hover {\n")
    \o Chars("            text-decoration: underline;\n")
    \o Chars("        }\n")
    \o Chars("        hr {\n")
    \o Chars("            border: none;\n")
    \o Chars("            border-top: 1px solid #333;\n")
    \o Chars("            margin: 20px 0;\n")
    \o Chars("        }\n")
    \o Chars("        ul {\n")
    \o Chars("            list-style-type: square;\n")
    \o Chars("            color: #e0e0e0;\n")
    \o Chars("        }\n")
    \o Chars("        ")

\* css, light mode
LIGHT_CSS ==
  Chars("\n")
    \o Chars("        body {\n")
    \o Chars("            font-family: 'Segoe UI', Arial, sans-serif;\n")
    \o Chars("            line-height: 1.6;\n")
    \o Chars("            padding: 40px;\n")
    \o Chars("            max-width: 800px;\n")
    \o Chars("            margin: 0 auto;\n")
    \o Chars("            color: #333;\n")
    \o Chars("        }\n")
    \o Chars("        h1, h2, h3 {\n")
    \o Chars("            color: #2c3e50;\n")
    \o Chars("        }\n")
    \o Chars("        h1 {\n")
    \o Chars("            border-bottom: 2px solid #3498db;\n")
    \o Chars("            padding-bottom: 10px;\n")
    \o Chars("        }\n")
    \o Chars("        h2 {\n")
    \o Chars("            border-bottom: 1px solid #ddd;\n")
    \o Chars("            padding-bottom: 5px;\n")
    \o Chars("        }\n")
    \o Chars("        a {\n")
    \o Chars("            color: #3498db;\n")
    \o Chars("            text-decoration: none;\n")
    \o Chars("        }\n")
    \o Chars("        a:hover {\n")
    \o Chars("            text-decoration: underline;\n")
    \o Chars("        }\n")
    \o Chars("        ul {\n")
    \o Chars("            list-style-type: square;\n")
    \o Chars("        }\n")
    \o Chars("        ")

\* html_document up to {css}
DOCUMENT_HEAD ==
  Chars("<!DOCTYPE html>\n")
    \o Chars("<html>\n")
    \o Chars("<head>\n")
    \o Chars("    <title>Resume</title>\n")
    \o Chars("    <meta charset=\"UTF-8\">\n")
    \o Chars("    <style>\n")

\* html_document between {css} and {html_content}
DOCUMENT_MIDDLE ==
  Chars("\n")
    \o Chars("    </style>\n")
    \o Chars("</head>\n")
    \o Chars("<body>\n")
    \o Chars("    ")

\* html_document after {html_content}
DOCUMENT_TAIL ==
  Chars("\n")
    \o Chars("</body>\n")
    \o Chars("</html>")

\* The document of the fallback, plain_html in its shell.
plain_document(resume_text) ==
  PRE_SHELL_HEAD \o plain_html(resume_text) \o PRE_SHELL_TAIL

\* if dark_mode: css = ... else: css = ...
css_of(dark_mode) ==
  IF dark_mode THEN DARK_CSS ELSE LIGHT_CSS

\* html_document
html_document(css, html_content) ==
  DOCUMENT_HEAD \o css \o DOCUMENT_MIDDLE \o html_content \o DOCUMENT_TAIL

\* The working directory of the process.
CWD ==
  Chars("/home/ann")

\* os.path.abspath(filename), for a name without "." and ".." parts.
abspath(filename) ==
  IF filename # <<>> /\ filename[1] = "/" THEN filename
  ELSE CWD \o <<"/">> \o filename

\* What markdown.markdown does: it answers an HTML fragment or raises.
Converted(html) ==
  [raises |-> FALSE, message |-> <<>>, html |-> html]

ConverterRaises(message) ==
  [raises |-> TRUE, message |-> message, html |-> <<>>]

\* How open() and f.write() end: both succeed, open raises and leaves the
\* disk as it was, or the writing raises after open has emptied the file
\* and `kept` characters have reached it.
Written ==
  [fails |-> "", message |-> <<>>, kept |-> 0]

OpenFails(message) ==
  [fails |-> "open", message |-> message, kept |-> 0]

WriteFails(message, kept) ==
  [fails |-> "write", message |-> message, kept |-> kept]

\* The files with `content` under `filename`.
with_file(files, filename, content) ==
  [name \in DOMAIN files \cup {filename} |->
     IF name = filename THEN content ELSE files[name]]

\* with open(filename, "w", encoding="utf-8") as f: f.write(content)
write_file(files, filename, content, disk) ==
  IF disk.fails = "open"
  THEN [raised |-> TRUE, message |-> disk.message, files |-> files]
  ELSE IF disk.fails = "write"
  THEN [raised |-> TRUE, message |-> disk.message,
        files |-> with_file(files, filename,
                            SubSeq(content, 1, IF disk.kept < Len(content)
                                               THEN disk.kept ELSE Len(content)))]
  ELSE [raised |-> FALSE, message |-> <<>>,
        files |-> with_file(files, filename, content)]

\* What a call leaves: how it ended and the files on the disk.
Ended(outcome, value, files) ==
  [outcome |-> outcome, value |-> value, files |-> files]

\* except Exception as e: return f"Error saving HTML file: {str(e)}"
error_saving(message) ==
  Chars("Error saving HTML file: ") \o message

\* if not MARKDOWN_AVAILABLE: the document is written outside any try.
save_plain(resume_text, filename, files, disk) ==
  LET written == write_file(files, filename, plain_document(resume_text), disk)
  IN  IF written.raised
      THEN Ended("raise", written.message, written.files)
      ELSE Ended("return", abspath(filename), written.files)

\* try: ... except Exception as e: ...
save_converted(resume_text, filename, dark_mode, files, converter, disk) ==
  IF converter.raises
  THEN Ended("return", error_saving(converter.message), files)
  ELSE LET written == write_file(files, filename,
                                 html_document(css_of(dark_mode), converter.html),
                                 disk)
       IN  IF written.raised
           THEN Ended("return", error_saving(written.message), written.files)
           ELSE Ended("return", abspath(filename), written.files)

save_as_html(resume_text, filename, dark_mode, available, files, converter, disk) ==
  IF ~available
  THEN save_plain(resume_text, filename, files, disk)
  ELSE save_converted(resume_text, filename, dark_mode, files, converter, disk)

----------------------------------------------------------------------------
(* The export state machine: the module is imported, which settles whether *)
(* markdown is available, a text is put together, a file may be on the     *)
(* disk already, and save_as_html is called.                               *)

MaxExportPieces ==
  2

ExportPieces ==
  { Chars("# Ann Lee\n"), Chars("- <b>SQL</b> & </pre>"), <<Dot, " ">> }

\* The file names a caller gives.
Filenames ==
  { Chars("resume.html"), Chars("/tmp/r.html") }

\* The answers of markdown.markdown.
Converters ==
  { Converted(Chars("<h1>Ann Lee</h1>")), Converted(<<>>),
    ConverterRaises(Chars("bad input")) }

\* The ends of the opening and the writing of the file.
Disks ==
  { Written, OpenFails(Chars("[Errno 13] Permission denied")),
    WriteFails(Chars("[Errno 28] No space left on device"), 0),
    WriteFails(Chars("[Errno 5] Input/output error"), 15) }

ExportInit ==
  /\ ex_markdown = <<>>
  /\ ex_text = <<>>
  /\ ex_pieces = 0
  /\ ex_files = [name \in {} |-> <<>>]
  /\ ex_call = <<>>

\* import markdown / except ImportError
ExportImport(available) ==
  /\ ex_markdown = <<>>
  /\ ex_markdown' = <<available>>
  /\ UNCHANGED <<ex_text, ex_pieces, ex_files, ex_call>>
  /\ UNCHANGED <<spell_vars, enhance_vars, ats_vars, keyword_vars, template_vars, document_vars, app_vars, library_vars>>

ExportType(piece) ==
  /\ ex_call = <<>>
  /\ ex_pieces < MaxExportPieces
  /\ ex_text' = ex_text \o piece
  /\ ex_pieces' = ex_pieces + 1
  /\ UNCHANGED <<ex_markdown, ex_files, ex_call>>
  /\ UNCHANGED <<spell_vars, enhance_vars, ats_vars, keyword_vars, template_vars, document_vars, app_vars, library_vars>>

\* An earlier export has left a file under the name.
ExportOldFile(filename) ==
  /\ ex_call = <<>>
  /\ filename \notin DOMAIN ex_files
  /\ ex_files' = with_file(ex_files, filename, Chars("old"))
  /\ UNCHANGED <<ex_markdown, ex_text, ex_pieces, ex_call>>
  /\ UNCHANGED <<spell_vars, enhance_vars, ats_vars, keyword_vars, template_vars, document_vars, app_vars, library_vars>>

ExportSave(filename, dark_mode, converter, disk) ==
  /\ ex_markdown # <<>>
  /\ ex_call = <<>>
  /\ LET ended == save_as_html(ex_text, filename, dark_mode, ex_markdown[1],
                               ex_files, converter, disk)
     IN  /\ ex_call' = << [filename |-> filename, dark_mode |-> dark_mode,
                           converter |-> converter, disk |-> disk,
                           before |-> ex_files,
                           outcome |-> ended.outcome, value |-> ended.value] >>
         /\ ex_files' = ended.files
  /\ UNCHANGED <<ex_markdown, ex_text, ex_pieces>>
  /\ UNCHANGED <<spell_vars, enhance_vars, ats_vars, keyword_vars, template_vars, document_vars, app_vars, library_vars>>

----------------------------------------------------------------------------
(* save_as_pdf and save_as_docx (src/resume_export.py): each line of the   *)
(* text becomes one element of the document.  The fpdf and docx libraries  *)
(* are outside the program; what they are asked to add is kept as a        *)
(* sequence of elements, the content of the file written.                  *)

\* str.startswith(prefix)
startswith(t, prefix) ==
  Len(prefix) <= Len(t) /\ SubSeq(t, 1, Len(prefix)) = prefix

\* str.endswith(suffix)
endswith(t, suffix) ==
  Len(suffix) <= Len(t) /\ SubSeq(t, Len(t) - Len(suffix) + 1, Len(t)) = suffix

\* str.strip(chars)
strip_chars(t, chars) ==
  LET kept == {i \in 1..Len(t) : t[i] \notin chars}
  IN  IF kept = {} THEN <<>> ELSE SubSeq(t, Min(kept), Max(kept))

SEPARATOR_OVER ==
  10

\* '=' in line and len(line.strip()) > 10 and all(c == '=' for c in line.strip())
is_separator(line) ==
  /\ \E i \in 1..Len(line) : line[i] = "="
  /\ Len(strip(line)) > SEPARATOR_OVER
  /\ \A i \in 1..Len(strip(line)) : strip(line)[i] = "="

\* One element of a document: its kind, the level of a heading, its text,
\* and for a paragraph of runs its runs, each bold or not.
Element(kind, level, text, runs) ==
  [kind |-> kind, level |-> level, text |-> text, runs |-> runs]

\* re.split(r'(\*\*.*?\*\*)', line): the texts between the spans **...**
\* and the spans themselves, in turn, from place i on.
RECURSIVE split_bold_from(_, _)
split_bold_from(line, i) ==
  LET stars == {j \in i..(Len(line) - 1) : line[j] = "*" /\ line[j + 1] = "*"}
      opens == {j \in stars : \E k \in stars : k >= j + 2}
  IN  IF opens = {}
      THEN <<SubSeq(line, i, Len(line))>>
      ELSE LET open == Min(opens)
               close == Min({k \in stars : k >= open + 2})
           IN  <<SubSeq(line, i, open - 1), SubSeq(line, open, close + 1)>>
                 \o split_bold_from(line, close + 2)

\* p.add_run(part[2:-2]).bold = True, or p.add_run(part)
bold_runs(line) ==
  LET parts == split_bold_from(line, 1)
  IN  [k \in 1..Len(parts) |->
         IF startswith(parts[k], <<"*", "*">>) /\ endswith(parts[k], <<"*", "*">>)
         THEN [bold |-> TRUE, text |-> SubSeq(parts[k], 3, Len(parts[k]) - 2)]
         ELSE [bold |-> FALSE, text |-> parts[k]]]

\* The if/elif chain of save_as_pdf on one line.
pdf_element(line) ==
  IF startswith(line, Chars("# ")) THEN Element("heading", 1, SubSeq(line, 3, Len(line)), <<>>)
  ELSE IF startswith(line, Chars("## ")) THEN Element("heading", 2, SubSeq(line, 4, Len(line)), <<>>)
  ELSE IF startswith(line, Chars("### ")) THEN Element("heading", 3, SubSeq(line, 5, Len(line)), <<>>)
  ELSE IF startswith(line, <<"*", "*">>) /\ endswith(line, <<"*", "*">>)
  THEN Element("bold line", 0, strip_chars(line, {"*"}), <<>>)
  ELSE IF startswith(line, <<"-">>) \/ startswith(line, <<"*">>)
  THEN Element("bullet", 0, strip(SubSeq(line, 2, Len(line))), <<>>)
  ELSE IF strip(line) = <<>> THEN Element("blank", 0, <<>>, <<>>)
  ELSE IF is_separator(line) THEN Element("separator", 0, <<>>, <<>>)
  ELSE Element("paragraph", 0, line, <<>>)

\* The if/elif chain of save_as_docx on one line; a blank line is passed
\* over and adds nothing to the document.
docx_element(line) ==
  IF startswith(line, Chars("# ")) THEN Element("heading", 1, SubSeq(line, 3, Len(line)), <<>>)
  ELSE IF startswith(line, Chars("## ")) THEN Element("heading", 2, SubSeq(line, 4, Len(line)), <<>>)
  ELSE IF startswith(line, Chars("### ")) THEN Element("heading", 3, SubSeq(line, 5, Len(line)), <<>>)
  ELSE IF startswith(line, <<"-">>) \/ startswith(line, <<"*">>)
  THEN Element("bullet", 0, strip(SubSeq(line, 2, Len(line))), <<>>)
  ELSE IF strip(line) = <<>> THEN Element("blank", 0, <<>>, <<>>)
  ELSE IF is_separator(line) THEN Element("separator", 0, <<>>, <<>>)
  ELSE IF Contains(line, <<"*", "*">>) THEN Element("inline bold", 0, <<>>, bold_runs(line))
  ELSE Element("paragraph", 0, line, <<>>)

\* for line in lines, in save_as_pdf
pdf_elements(resume_text) ==
  [k \in 1..Len(split_lines(resume_text)) |-> pdf_element(split_lines(resume_text)[k])]

\* for line in lines, in save_as_docx
docx_elements(resume_text) ==
  [k \in 1..Len(split_lines(resume_text)) |-> docx_element(split_lines(resume_text)[k])]

IsAdded(element) ==
  element.kind # "blank"

PDF_MISSING ==
  Chars("Error: PDF export requires the fpdf package. Install with 'pip install fpdf'.")

DOCX_MISSING ==
  Chars("Error: DOCX export requires python-docx package. Install with 'pip install python-docx'.")

save_as_pdf(resume_text, filename, available, files, disk) ==
  IF ~available
  THEN Ended("return", PDF_MISSING, files)
  ELSE LET written == write_file(files, filename, pdf_elements(resume_text), disk)
       IN  IF written.raised
           THEN Ended("return", Chars("Error saving PDF file: ") \o written.message,
                      written.files)
           ELSE Ended("return", abspath(filename), written.files)

save_as_docx(resume_text, filename, available, files, disk) ==
  IF ~available
  THEN Ended("return", DOCX_MISSING, files)
  ELSE LET written == write_file(files, filename,
                                 SelectSeq(docx_elements(resume_text), IsAdded), disk)
       IN  IF written.raised
           THEN Ended("return", Chars("Error saving DOCX file: ") \o written.message,
                      written.files)
           ELSE Ended("return", abspath(filename), written.files)

----------------------------------------------------------------------------
(* The document state machine: a text is typed line by line and saved as   *)
(* PDF and as DOCX.                                                        *)

MaxDocLines ==
  2

DocLines ==
  { Chars("# Ann Lee"), Chars("## Skills"), Chars("### Tools"), Chars("#Ann"),
    Chars("**Engineer**"), Chars("- SQL "), Chars("* Python"), Chars("  "),
    Chars("==========="), Chars("=========="), Chars("led **two** teams**"),
    Chars("plain"), Chars("") }

DocInit ==
  /\ dc_lines = 0
  /\ dc_text = <<>>
  /\ dc_files = [name \in {} |-> <<>>]
  /\ dc_calls = <<>>

\* One more line; an empty line when nothing but the line break is typed.
DocType(line) ==
  /\ dc_calls = <<>>
  /\ dc_lines < MaxDocLines
  /\ dc_text' = IF dc_lines = 0 THEN line ELSE dc_text \o <<"\n">> \o line
  /\ dc_lines' = dc_lines + 1
  /\ UNCHANGED <<dc_files, dc_calls>>
  /\ UNCHANGED <<spell_vars, enhance_vars, ats_vars, keyword_vars, template_vars, export_vars, app_vars, library_vars>>

DocSavePdf(available, disk) ==
  /\ "pdf" \notin {dc_calls[k].format : k \in 1..Len(dc_calls)}
  /\ LET ended == save_as_pdf(dc_text, Chars("resume.pdf"), available, dc_files, disk)
     IN  /\ dc_calls' = Append(dc_calls, [format |-> "pdf", available |-> available,
                                          disk |-> disk, value |-> ended.value])
         /\ dc_files' = ended.files
  /\ UNCHANGED <<dc_lines, dc_text>>
  /\ UNCHANGED <<spell_vars, enhance_vars, ats_vars, keyword_vars, template_vars, export_vars, app_vars, library_vars>>

DocSaveDocx(available, disk) ==
  /\ "docx" \notin {dc_calls[k].format : k \in 1..Len(dc_calls)}
  /\ LET ended == save_as_docx(dc_text, Chars("resume.docx"), available, dc_files, disk)
     IN  /\ dc_calls' = Append(dc_calls, [format |-> "docx", available |-> available,
                                          disk |-> disk, value |-> ended.value])
         /\ dc_files' = ended.files
  /\ UNCHANGED <<dc_lines, dc_text>>
  /\ UNCHANGED <<spell_vars, enhance_vars, ats_vars, keyword_vars, template_vars, export_vars, app_vars, library_vars>>

----------------------------------------------------------------------------
(* The application (src/enhanced_resume_generator.py).  Its own modules    *)
(* are there, so TEMPLATES_AVAILABLE and EXPORT_AVAILABLE are true;        *)
(* whether requests, markdown, fpdf and docx are installed is settled at   *)
(* import.  ai_suggestions and text_enhancer import requests themselves,   *)
(* so they are available when requests is installed.                       *)
(* The connectivity probe, the answers of the generative service, the      *)
(* summary that get_summary obtains and the ends of the file operations    *)
(* are inputs of the handlers, and so are the values the user has put in   *)
(* the widgets when a handler reads them.                                  *)

\* The form as generate_resume reads it, stripped; the other entries stay
\* as they are: no education, phone, location and links, and one email.
Form(name, job_role, skills, experience) ==
  [name |-> name, job_role |-> job_role, skills |-> skills, experience |-> experience]

\* The keyword arguments of resume_templates.format_resume.
fields_of(form, summary) ==
  [key \in DOMAIN defaults |->
     IF key = "name" THEN form.name
     ELSE IF key = "job_role" THEN form.job_role
     ELSE IF key = "summary" THEN summary
     ELSE IF key = "skills" THEN form.skills
     ELSE IF key = "experience" THEN form.experience
     ELSE IF key = "email" THEN Chars("a@b.c")
     ELSE <<>>]

\* format_resume_from_template(..., template_name), with TEMPLATES_AVAILABLE
format_resume_from_template(form, summary, template_name) ==
  format_resume(template_name, Kwargs(fields_of(form, summary), <<>>)).value

\* The try block of generate_resume_with_ai: the probe, the request and
\* what is made of the answer.
ai_resume(probe, reply) ==
  IF ~probe THEN Raises("ConnectionError")
  ELSE IF reply.raises THEN Raises("RequestException")
  ELSE IF reply.status # STATUS_OK THEN Raises("ConnectionError")
  ELSE IF ~reply.json THEN Raises("JSONDecodeError")
  ELSE IF ~reply.object THEN Raises("AttributeError")
  ELSE IF ~reply.has_response \/ reply.response = <<>> THEN Raises("ValueError")
  ELSE Returns(reply.response)

\* Variant: the fallback of the AI generation renders the template given.
generate_resume_with_ai_selected(form, summary, template_name, requests_available, probe, reply) ==
  IF ~requests_available
  THEN Raises("ImportError")
  ELSE IF ai_resume(probe, reply).outcome = "raise"
       THEN Returns(format_resume_from_template(form, summary, template_name))
       ELSE ai_resume(probe, reply)

\* generate_resume_with_ai: the fallback calls format_resume_from_template
\* without a template name, which is "modern" by default.
generate_resume_with_ai(form, summary, template_name, requests_available, probe, reply) ==
  IF ~requests_available
  THEN Raises("ImportError")
  ELSE IF ai_resume(probe, reply).outcome = "raise"
       THEN Returns(format_resume_from_template(form, summary, Chars("modern")))
       ELSE ai_resume(probe, reply)

\* The text that generate_resume assigns to self.resume_text.
generated_text(form, summary, template_name, requests_available, probe, again, reply) ==
  IF probe /\ requests_available
  THEN LET made == generate_resume_with_ai(form, summary, template_name,
                                           requests_available, again, reply)
       IN  IF made.outcome = "raise"
           THEN format_resume_from_template(form, summary, template_name)
           ELSE made.value
  ELSE format_resume_from_template(form, summary, template_name)

\* The history file: absent, a JSON list of records, a text that is no
\* JSON, such as a list cut short, or JSON that is no list; with the
\* records that stand in it.
History(kind, records) ==
  [kind |-> kind, records |-> records]

\* resume_data, without its timestamp.
resume_data(form, template_name, resume_text) ==
  [name |-> form.name, job_role |-> form.job_role, template |-> template_name,
   resume_text |-> resume_text]

\* save_resume_to_history(resume_data): whether it raises, and the file
\* it leaves.
save_resume_to_history(data, history, disk) ==
  LET loaded == IF history.kind = "list" THEN history.records ELSE <<>>
  IN  IF history.kind = "object"
      THEN [raised |-> TRUE, history |-> history]
      ELSE IF disk.fails = "open"
      THEN [raised |-> TRUE, history |-> history]
      ELSE IF disk.fails = "write"
      THEN [raised |-> TRUE, history |-> History("text", <<>>)]
      ELSE [raised |-> FALSE, history |-> History("list", Append(loaded, data))]

EXCELLENT_FROM ==
  85

GOOD_FROM ==
  70

AVERAGE_FROM ==
  50

\* Variant: the rating without its third band.
rating_of_two_bands(overall_score) ==
  IF overall_score >= EXCELLENT_FROM THEN "Excellent"
  ELSE IF overall_score >= GOOD_FROM THEN "Good"
  ELSE "Needs Improvement"

\* "Determine rating"
rating_of(overall_score) ==
  IF overall_score >= EXCELLENT_FROM THEN "Excellent"
  ELSE IF overall_score >= GOOD_FROM THEN "Good"
  ELSE IF overall_score >= AVERAGE_FROM THEN "Average"
  ELSE "Needs Improvement"

\* TEXT_ENHANCER_AVAILABLE: the import of text_enhancer, which imports
\* requests, has succeeded.
TEXT_ENHANCER_AVAILABLE(libs) ==
  libs.requests

\* calculate_ats_score(self): the score display it leaves.
ats_display(resume_text, available, display) ==
  IF ~available \/ resume_text = <<>>
  THEN display
  ELSE LET overall_score == calculate_ats_score(resume_text, None).overall
       IN  <<[overall |-> overall_score, rating |-> rating_of(overall_score)]>>

\* text_enhancer.enhance_with_ai(text, job_role): the enhanced text it
\* returns, for the answers to its two requests.
enhance_with_ai(text, reply, explanation_reply) ==
  IF reply.raises THEN text
  ELSE IF reply.status # STATUS_OK THEN text
  ELSE IF ~reply.json \/ ~reply.object THEN text
  ELSE IF explanation_reply.raises THEN text
  ELSE IF explanation_reply.status = STATUS_OK
          /\ (~explanation_reply.json \/ ~explanation_reply.object) THEN text
  ELSE IF reply.has_response THEN reply.response ELSE <<>>

\* The texts enhance_thread may compute from the text it reads.
enhanced_texts(text, requests_available, probe, reply, explanation_reply) ==
  IF probe /\ requests_available
  THEN {enhance_with_ai(text, reply, explanation_reply)}
  ELSE {result[1] : result \in enhance_text(text)}

\* resume_export.save_as_text
save_as_text(resume_text, filename, files, disk) ==
  LET written == write_file(files, filename, resume_text, disk)
  IN  IF written.raised
      THEN Ended("return", Chars("Error saving text file: ") \o written.message,
                 written.files)
      ELSE Ended("return", abspath(filename), written.files)

\* export_resume(resume_text, format_type, filename), with EXPORT_AVAILABLE
export_resume(resume_text, format_type, filename, libs, files, converter, disk) ==
  IF format_type = "txt"
  THEN save_as_text(resume_text, filename \o Chars(".txt"), files, disk)
  ELSE IF format_type = "html"
  THEN save_as_html(resume_text, filename \o Chars(".html"), FALSE, libs.markdown,
                    files, converter, disk)
  ELSE IF format_type = "docx"
  THEN save_as_docx(resume_text, filename \o Chars(".docx"), libs.docx, files, disk)
  ELSE IF format_type = "pdf"
  THEN save_as_pdf(resume_text, filename \o Chars(".pdf"), libs.fpdf, files, disk)
  ELSE save_as_text(resume_text, filename \o Chars(".txt"), files, disk)

\* The try block of export_current_resume, and its except clause: how the
\* export ends and the files it leaves.
exported(resume_text, format_type, filename, dark_mode, libs, files, converter, disk) ==
  LET ended == IF format_type = "html"
               THEN save_as_html(resume_text, filename, dark_mode, libs.markdown,
                                 files, converter, disk)
               ELSE export_resume(resume_text, format_type, filename, libs, files,
                                  converter, disk)
  IN  IF ended.outcome = "raise"
      THEN Ended("return", Chars("Export error: ") \o ended.value, ended.files)
      ELSE ended

----------------------------------------------------------------------------
(* The application state machine.  The handlers run on the main thread,    *)
(* one at a time; enhance_thread runs beside them and assigns              *)
(* self.resume_text without any lock, so a handler that reads or writes    *)
(* self.resume_text more than once is a sequence of steps, and the thread  *)
(* may take its steps between them.                                        *)

MaxHistory ==
  2

MaxEnhancing ==
  1

MaxDialogs ==
  1

PLACEHOLDER ==
  Chars("Your resume preview will appear here...")

\* What is installed: requests, markdown, fpdf and docx.
Libs(requests, markdown, fpdf, docx) ==
  [requests |-> requests, markdown |-> markdown, fpdf |-> fpdf, docx |-> docx]

\* The service answers with a text.
Answer(response) ==
  Reply(FALSE, 200, TRUE, TRUE, TRUE, response)

\* No request is sent, or the request fails.
NoReply ==
  Reply(TRUE, 0, FALSE, FALSE, FALSE, <<>>)

\* The forms filled in: one without a name, one with a misspelt word.
Forms ==
  { Form(<<>>, Chars("Engineer"), Chars("SQL"), <<>>),
    Form(Chars("Ann Lee"), Chars("Engineer"), Chars("SQL, Go"),
         Chars("I recieve data and worked on tools")) }

\* What get_summary obtains.
Summaries ==
  { Chars("Builds tools.") }

\* The history file as it may be found.
Histories ==
  { History("list", <<resume_data(Form(Chars("Old"), Chars("Clerk"), <<>>, <<>>),
                                  Chars("classic"), Chars("Old"))>>),
    History("text", <<resume_data(Form(Chars("Old"), Chars("Clerk"), <<>>, <<>>),
                                  Chars("classic"), Chars("Old"))>>),
    History("object", <<>>) }

\* What may be installed.
Installed ==
  { Libs(TRUE, TRUE, TRUE, TRUE), Libs(TRUE, FALSE, FALSE, FALSE),
    Libs(TRUE, FALSE, TRUE, FALSE), Libs(TRUE, TRUE, FALSE, TRUE) }

\* The answers of the service to a generation and to an enhancement.
AppReplies ==
  { NoReply,
    Reply(FALSE, 500, TRUE, TRUE, FALSE, <<>>),
    Reply(FALSE, 200, TRUE, TRUE, FALSE, <<>>),
    Answer(Chars("Sorted mail")) }

FORMATS ==
  { "txt", "html", "docx", "pdf" }

AppInit ==
  /\ ap_libs = <<>>
  /\ ap_resume_text = <<>>
  /\ ap_preview = PLACEHOLDER
  /\ ap_ats = <<>>
  /\ ap_history = History("absent", <<>>)
  /\ ap_files = [name \in {} |-> <<>>]
  /\ ap_workers = <<>>
  /\ ap_pending = <<>>
  /\ ap_dialogs = {}
  /\ ap_main = <<>>
  /\ ap_generated = FALSE
  /\ ap_last = [op |-> "none"]

\* The history file as it is found when the application starts.
AppFindHistory(history) ==
  /\ ap_libs = <<>>
  /\ ap_history = History("absent", <<>>)
  /\ ap_history' = history
  /\ UNCHANGED <<ap_libs, ap_generated, ap_resume_text, ap_preview, ap_ats, ap_files, ap_workers,
                 ap_pending, ap_dialogs, ap_main, ap_last>>
  /\ UNCHANGED <<spell_vars, enhance_vars, ats_vars, keyword_vars, template_vars, export_vars, document_vars, library_vars>>

\* The imports of the modules and ResumeGeneratorApp.__init__
AppStart(libs) ==
  /\ ap_libs = <<>>
  /\ ap_libs' = <<libs>>
  /\ UNCHANGED <<ap_generated, ap_resume_text, ap_preview, ap_ats, ap_history, ap_files, ap_workers,
                 ap_pending, ap_dialogs, ap_main, ap_last>>
  /\ UNCHANGED <<spell_vars, enhance_vars, ats_vars, keyword_vars, template_vars, export_vars, document_vars, library_vars>>

\* A handler may start: the application runs and the main thread is free.
Idle ==
  ap_libs # <<>> /\ ap_main = <<>>

\* generate_resume up to the assignment of self.resume_text.  The second
\* probe and the request are made only after a first probe that succeeded
\* with requests installed.
AppGenerate(form, template_name, summary, probe, again, reply) ==
  /\ Idle
  /\ Len(ap_history.records) < MaxHistory
  /\ ~(probe /\ ap_libs[1].requests) => (~again /\ reply = NoReply)
  /\ ~again => reply = NoReply
  /\ IF form.name = <<>> \/ form.job_role = <<>>
     THEN /\ ~probe
          /\ ap_last' = [op |-> "generate", done |-> FALSE]
          /\ UNCHANGED <<ap_resume_text, ap_main, ap_generated>>
     ELSE /\ ap_resume_text' = generated_text(form, summary, template_name,
                                              ap_libs[1].requests, probe, again, reply)
          /\ ap_main' = << [op |-> "generate", step |-> "preview", form |-> form,
                            template |-> template_name, summary |-> summary,
                            probe |-> probe, again |-> again, reply |-> reply,
                            text |-> ap_resume_text'] >>
          /\ ap_generated' = (ap_generated \/ ap_resume_text' # <<>>)
          /\ UNCHANGED ap_last
  /\ UNCHANGED <<ap_libs, ap_preview, ap_ats, ap_history, ap_files, ap_workers,
                 ap_pending, ap_dialogs>>
  /\ UNCHANGED <<spell_vars, enhance_vars, ats_vars, keyword_vars, template_vars, export_vars, document_vars, library_vars>>

\* generate_resume: "Update preview"
AppGeneratePreview ==
  /\ ap_main # <<>>
  /\ ap_main[1].op = "generate" /\ ap_main[1].step = "preview"
  /\ ap_preview' = ap_resume_text
  /\ ap_main' = <<[ap_main[1] EXCEPT !.step = "history"]>>
  /\ UNCHANGED <<ap_libs, ap_generated, ap_resume_text, ap_ats, ap_history, ap_files, ap_workers,
                 ap_pending, ap_dialogs, ap_last>>
  /\ UNCHANGED <<spell_vars, enhance_vars, ats_vars, keyword_vars, template_vars, export_vars, document_vars, library_vars>>

\* generate_resume: "Save to history"; an error of the saving ends the
\* handler in its except clause.
AppGenerateHistory(disk) ==
  /\ ap_main # <<>>
  /\ ap_main[1].op = "generate" /\ ap_main[1].step = "history"
  /\ LET data == resume_data(ap_main[1].form, ap_main[1].template, ap_resume_text)
         saved == save_resume_to_history(data, ap_history, disk)
     IN  /\ ap_history' = saved.history
         /\ IF saved.raised
            THEN /\ ap_main' = <<>>
                 /\ ap_last' = [ap_main[1] EXCEPT !.step = "failed"]
            ELSE /\ ap_main' = <<[ap_main[1] EXCEPT !.step = "score"]>>
                 /\ UNCHANGED ap_last
  /\ UNCHANGED <<ap_libs, ap_generated, ap_resume_text, ap_preview, ap_ats, ap_files, ap_workers,
                 ap_pending, ap_dialogs>>
  /\ UNCHANGED <<spell_vars, enhance_vars, ats_vars, keyword_vars, template_vars, export_vars, document_vars, library_vars>>

\* generate_resume: "Calculate ATS score"
AppGenerateScore ==
  /\ ap_main # <<>>
  /\ ap_main[1].op = "generate" /\ ap_main[1].step = "score"
  /\ ap_ats' = IF TEXT_ENHANCER_AVAILABLE(ap_libs[1])
               THEN ats_display(ap_resume_text, TEXT_ENHANCER_AVAILABLE(ap_libs[1]), ap_ats)
               ELSE ap_ats
  /\ ap_main' = <<>>
  /\ ap_last' = [ap_main[1] EXCEPT !.step = "done"]
  /\ UNCHANGED <<ap_libs, ap_generated, ap_resume_text, ap_preview, ap_history, ap_files, ap_workers,
                 ap_pending, ap_dialogs>>
  /\ UNCHANGED <<spell_vars, enhance_vars, ats_vars, keyword_vars, template_vars, export_vars, document_vars, library_vars>>

\* Variant: the export goes on to the file dialog without a text.
AppExportUnguarded ==
  /\ Idle
  /\ ap_main' = <<[op |-> "export", step |-> "save"]>>
  /\ UNCHANGED ap_last
  /\ UNCHANGED <<ap_libs, ap_generated, ap_resume_text, ap_preview, ap_ats, ap_history, ap_files,
                 ap_workers, ap_pending, ap_dialogs>>
  /\ UNCHANGED <<spell_vars, enhance_vars, ats_vars, keyword_vars, template_vars, export_vars, document_vars, library_vars>>

\* export_current_resume up to the file dialog.
AppExport ==
  /\ Idle
  /\ IF ap_resume_text = <<>>
     THEN /\ ap_last' = [op |-> "export", done |-> FALSE]
          /\ UNCHANGED ap_main
     ELSE /\ ap_main' = <<[op |-> "export", step |-> "save"]>>
          /\ UNCHANGED ap_last
  /\ UNCHANGED <<ap_libs, ap_generated, ap_resume_text, ap_preview, ap_ats, ap_history, ap_files,
                 ap_workers, ap_pending, ap_dialogs>>
  /\ UNCHANGED <<spell_vars, enhance_vars, ats_vars, keyword_vars, template_vars, export_vars, document_vars, library_vars>>

\* export_current_resume from the file dialog on; an empty filename is a
\* dialog that was cancelled.  The converter is asked only for HTML with
\* markdown installed, and the disk is written only when the library of
\* the format is installed.
AppExportSave(format_type, filename, dark_mode, converter, disk) ==
  /\ ap_main # <<>>
  /\ ap_main[1].op = "export"
  /\ ~(format_type = "html" /\ ap_libs[1].markdown) => converter = Converted(<<>>)
  /\ \/ filename = <<>>
     \/ format_type = "pdf" /\ ~ap_libs[1].fpdf
     \/ format_type = "docx" /\ ~ap_libs[1].docx
     => disk = Written
  /\ IF filename = <<>>
     THEN /\ ap_last' = [op |-> "export", done |-> FALSE]
          /\ UNCHANGED ap_files
     ELSE LET ended == exported(ap_resume_text, format_type, filename, dark_mode,
                                ap_libs[1], ap_files, converter, disk)
          IN  /\ ap_files' = ended.files
              /\ ap_last' = [op |-> "export", done |-> TRUE, format |-> format_type,
                             filename |-> filename, disk |-> disk,
                             text |-> ap_resume_text, outcome |-> ended.outcome,
                             value |-> ended.value]
  /\ ap_main' = <<>>
  /\ UNCHANGED <<ap_libs, ap_generated, ap_resume_text, ap_preview, ap_ats, ap_history, ap_workers,
                 ap_pending, ap_dialogs>>
  /\ UNCHANGED <<spell_vars, enhance_vars, ats_vars, keyword_vars, template_vars, export_vars, document_vars, library_vars>>

\* check_spelling(self): with corrections a dialog opens, whose button
\* keeps corrected_text.
AppCheckSpelling ==
  /\ Idle
  /\ LET checked == check_spelling(ap_resume_text)
         dialog == [checked |-> ap_resume_text, corrected |-> checked[1]]
     IN  IF ~TEXT_ENHANCER_AVAILABLE(ap_libs[1]) \/ ap_resume_text = <<>>
            \/ checked[2] = <<>>
         THEN /\ ap_last' = [op |-> "check_spelling", done |-> FALSE]
              /\ UNCHANGED ap_dialogs
         ELSE /\ dialog \in ap_dialogs \/ Cardinality(ap_dialogs) < MaxDialogs
              /\ ap_dialogs' = ap_dialogs \cup {dialog}
              /\ ap_last' = [op |-> "check_spelling", done |-> TRUE]
  /\ UNCHANGED <<ap_libs, ap_generated, ap_resume_text, ap_preview, ap_ats, ap_history, ap_files,
                 ap_workers, ap_pending, ap_main>>
  /\ UNCHANGED <<spell_vars, enhance_vars, ats_vars, keyword_vars, template_vars, export_vars, document_vars, library_vars>>

\* The user closes the corrections window.
AppCloseDialog(dialog) ==
  /\ Idle
  /\ dialog \in ap_dialogs
  /\ ap_dialogs' = ap_dialogs \ {dialog}
  /\ UNCHANGED <<ap_libs, ap_generated, ap_resume_text, ap_preview, ap_ats, ap_history, ap_files,
                 ap_workers, ap_pending, ap_main, ap_last>>
  /\ UNCHANGED <<spell_vars, enhance_vars, ats_vars, keyword_vars, template_vars, export_vars, document_vars, library_vars>>

\* Variant: the corrections are applied to the preview alone.
AppApplyShown(dialog) ==
  /\ Idle
  /\ dialog \in ap_dialogs
  /\ IF ap_resume_text = <<>>
     THEN /\ ap_last' = [op |-> "apply", done |-> FALSE, dialog |-> dialog,
                         before |-> ap_resume_text]
          /\ UNCHANGED ap_main
     ELSE /\ ap_main' = <<[op |-> "apply", step |-> "preview", dialog |-> dialog,
                            before |-> ap_resume_text]>>
          /\ UNCHANGED ap_last
  /\ UNCHANGED <<ap_libs, ap_generated, ap_resume_text, ap_preview, ap_ats, ap_history, ap_files,
                 ap_workers, ap_pending, ap_dialogs>>
  /\ UNCHANGED <<spell_vars, enhance_vars, ats_vars, keyword_vars, template_vars, export_vars, document_vars, library_vars>>

\* apply_spelling_corrections(corrected_text) up to the assignment.
AppApply(dialog) ==
  /\ Idle
  /\ dialog \in ap_dialogs
  /\ IF ap_resume_text = <<>>
     THEN /\ ap_last' = [op |-> "apply", done |-> FALSE, dialog |-> dialog,
                         before |-> ap_resume_text]
          /\ UNCHANGED <<ap_resume_text, ap_main>>
     ELSE /\ ap_resume_text' = dialog.corrected
          /\ ap_main' = <<[op |-> "apply", step |-> "preview", dialog |-> dialog,
                            before |-> ap_resume_text]>>
          /\ UNCHANGED ap_last
  /\ UNCHANGED <<ap_libs, ap_generated, ap_preview, ap_ats, ap_history, ap_files, ap_workers,
                 ap_pending, ap_dialogs>>
  /\ UNCHANGED <<spell_vars, enhance_vars, ats_vars, keyword_vars, template_vars, export_vars, document_vars, library_vars>>

\* apply_spelling_corrections: the preview gets self.resume_text.
AppApplyPreview ==
  /\ ap_main # <<>>
  /\ ap_main[1].op = "apply"
  /\ ap_preview' = ap_resume_text
  /\ ap_main' = <<>>
  /\ ap_last' = [op |-> "apply", done |-> TRUE, dialog |-> ap_main[1].dialog,
                 before |-> ap_main[1].before]
  /\ UNCHANGED <<ap_libs, ap_generated, ap_resume_text, ap_ats, ap_history, ap_files, ap_workers,
                 ap_pending, ap_dialogs>>
  /\ UNCHANGED <<spell_vars, enhance_vars, ats_vars, keyword_vars, template_vars, export_vars, document_vars, library_vars>>

\* enhance_resume: the thread is started.
AppEnhance ==
  /\ Idle
  /\ IF ~TEXT_ENHANCER_AVAILABLE(ap_libs[1]) \/ ap_resume_text = <<>>
     THEN /\ ap_last' = [op |-> "enhance", done |-> FALSE]
          /\ UNCHANGED ap_workers
     ELSE /\ Len(ap_workers) + Len(ap_pending) < MaxEnhancing
          /\ ap_workers' = Append(ap_workers, [pc |-> "started", text |-> <<>>])
          /\ ap_last' = [op |-> "enhance", done |-> TRUE]
  /\ UNCHANGED <<ap_libs, ap_generated, ap_resume_text, ap_preview, ap_ats, ap_history, ap_files,
                 ap_pending, ap_dialogs, ap_main>>
  /\ UNCHANGED <<spell_vars, enhance_vars, ats_vars, keyword_vars, template_vars, export_vars, document_vars, library_vars>>

\* enhance_thread: self.resume_text is read and enhanced, by the service
\* after a probe that succeeded with requests installed, by enhance_text
\* otherwise.
WorkerCompute(k, probe, reply, explanation_reply) ==
  /\ k \in 1..Len(ap_workers)
  /\ ap_workers[k].pc = "started"
  /\ ~(probe /\ ap_libs[1].requests) => (reply = NoReply /\ explanation_reply = NoReply)
  /\ \E enhanced_text \in enhanced_texts(ap_resume_text, ap_libs[1].requests, probe,
                                          reply, explanation_reply) :
       ap_workers' = [ap_workers EXCEPT ![k] = [pc |-> "computed", text |-> enhanced_text]]
  /\ UNCHANGED <<ap_libs, ap_generated, ap_resume_text, ap_preview, ap_ats, ap_history, ap_files,
                 ap_pending, ap_dialogs, ap_main, ap_last>>
  /\ UNCHANGED <<spell_vars, enhance_vars, ats_vars, keyword_vars, template_vars, export_vars, document_vars, library_vars>>

\* enhance_thread: self.resume_text = enhanced_text
WorkerAssign(k) ==
  /\ k \in 1..Len(ap_workers)
  /\ ap_workers[k].pc = "computed"
  /\ ap_resume_text' = ap_workers[k].text
  /\ ap_workers' = [ap_workers EXCEPT ![k].pc = "assigned"]
  /\ UNCHANGED <<ap_libs, ap_generated, ap_preview, ap_ats, ap_history, ap_files, ap_pending,
                 ap_dialogs, ap_main, ap_last>>
  /\ UNCHANGED <<spell_vars, enhance_vars, ats_vars, keyword_vars, template_vars, export_vars, document_vars, library_vars>>

\* enhance_thread: self.root.after(0, self.update_preview_with_enhanced_text, ...)
WorkerSchedule(k) ==
  /\ k \in 1..Len(ap_workers)
  /\ ap_workers[k].pc = "assigned"
  /\ ap_pending' = Append(ap_pending, ap_workers[k].text)
  /\ ap_workers' = [j \in 1..(Len(ap_workers) - 1) |->
                      IF j < k THEN ap_workers[j] ELSE ap_workers[j + 1]]
  /\ UNCHANGED <<ap_libs, ap_generated, ap_resume_text, ap_preview, ap_ats, ap_history, ap_files,
                 ap_dialogs, ap_main, ap_last>>
  /\ UNCHANGED <<spell_vars, enhance_vars, ats_vars, keyword_vars, template_vars, export_vars, document_vars, library_vars>>

\* update_preview_with_enhanced_text, called by the main loop.
AppCallback ==
  /\ Idle
  /\ ap_pending # <<>>
  /\ ap_preview' = Head(ap_pending)
  /\ ap_ats' = ats_display(ap_resume_text, TEXT_ENHANCER_AVAILABLE(ap_libs[1]), ap_ats)
  /\ ap_pending' = Tail(ap_pending)
  /\ ap_last' = [op |-> "callback", done |-> TRUE]
  /\ UNCHANGED <<ap_libs, ap_generated, ap_resume_text, ap_history, ap_files, ap_workers,
                 ap_dialogs, ap_main>>
  /\ UNCHANGED <<spell_vars, enhance_vars, ats_vars, keyword_vars, template_vars, export_vars, document_vars, library_vars>>

----------------------------------------------------------------------------
(* The tables of the modules: the lexicon of text_enhancer and the         *)
(* templates of resume_templates, as the processing functions leave them.  *)

\* The lexicon tables that the functions of text_enhancer use.
Lexicon ==
  [mistakes |-> COMMON_SPELLING_MISTAKES, weak |-> WEAK_WORDS,
   cliches |-> RESUME_CLICHES, verbs |-> ACTION_VERBS]

\* The templates of resume_templates.
Templates ==
  [modern |-> MODERN_TEMPLATE, classic |-> CLASSIC_TEMPLATE,
   minimalist |-> MINIMALIST_TEMPLATE, dark |-> DARK_TEMPLATE]

\* The processing functions.
PROCESSING ==
  { "check_spelling", "enhance_text", "calculate_ats_score",
    "extract_keywords_from_job_description", "get_template", "format_resume" }

\* Variant: enhance_text takes the verb it suggests out of its category.
lexicon_after_taking(function, lexicon, text) ==
  IF function = "enhance_text" /\ unverbed_bullets(split_lines(text), 1) # <<>>
  THEN [lexicon EXCEPT !.verbs.management = Tail(@)]
  ELSE lexicon

\* The lexicon after a call: check_spelling iterates over the items of
\* COMMON_SPELLING_MISTAKES; enhance_text iterates over WEAK_WORDS,
\* RESUME_CLICHES and the categories of ACTION_VERBS and has random.choice
\* return one verb of a category; the other functions use no table.  The
\* corrections, enhancements and suggestions are appended to lists of the
\* call.
lexicon_after(function, lexicon, text) ==
  lexicon

\* The templates after a call: get_template builds its dict of the four
\* templates at every call and returns one of them, and format_resume
\* makes a new string of it with str.format.
templates_after(function, templates, text) ==
  templates

----------------------------------------------------------------------------
(* The tables state machine: a text is typed and the processing functions  *)
(* are called with it.                                                     *)

MaxLibPieces ==
  2

LibPieces ==
  { Chars("I recieve mail\n"), Chars("- really did things\n"),
    Chars("a team player\n"), Chars("modern") }

LibInit ==
  /\ lb_lexicon = Lexicon
  /\ lb_templates = Templates
  /\ lb_typed = 0
  /\ lb_text = <<>>
  /\ lb_called = ""

LibType(piece) ==
  /\ lb_typed < MaxLibPieces
  /\ lb_typed' = lb_typed + 1
  /\ lb_text' = lb_text \o piece
  /\ UNCHANGED <<lb_lexicon, lb_templates, lb_called>>
  /\ UNCHANGED <<spell_vars, enhance_vars, ats_vars, keyword_vars, template_vars, export_vars, document_vars, app_vars>>

\* A call of a processing function with the text.
LibCall(function) ==
  /\ lb_lexicon' = lexicon_after(function, lb_lexicon, lb_text)
  /\ lb_templates' = templates_after(function, lb_templates, lb_text)
  /\ lb_called' = function
  /\ UNCHANGED <<lb_typed, lb_text>>
  /\ UNCHANGED <<spell_vars, enhance_vars, ats_vars, keyword_vars, template_vars, export_vars, document_vars, app_vars>>

----------------------------------------------------------------------------
(* The spelling state machine: a text is typed piece by piece, then        *)
(* check_spelling is applied to it, and applied again to its own result.   *)

MaxSpellPieces ==
  2

MaxSpellCalls ==
  2

SpellPieces ==
  { Chars("recieve"), Chars("Recieve "), Chars("RECIEVE,"), Chars("receive "),
    Chars("alot "), Chars("Alot"), Chars("untill "), Chars("Accomodate "),
    Chars("s "), Chars("_"), Chars(" ") }

SpellInit ==
  /\ sp_typed = 0
  /\ sp_input = <<>>
  /\ sp_arg = <<>>
  /\ sp_text = <<>>
  /\ sp_corr = <<>>
  /\ sp_calls = 0

SpellType(piece) ==
  /\ sp_calls = 0
  /\ sp_typed < MaxSpellPieces
  /\ sp_typed' = sp_typed + 1
  /\ sp_input' = sp_input \o piece
  /\ sp_text' = sp_text \o piece
  /\ UNCHANGED <<sp_arg, sp_corr, sp_calls>>
  /\ UNCHANGED <<enhance_vars, ats_vars, keyword_vars, template_vars, export_vars, document_vars, app_vars, library_vars>>

SpellCheck ==
  /\ sp_calls < MaxSpellCalls
  /\ sp_arg' = sp_text
  /\ LET result == check_spelling(sp_text)
     IN  sp_text' = result[1] /\ sp_corr' = result[2]
  /\ sp_calls' = sp_calls + 1
  /\ UNCHANGED <<sp_typed, sp_input>>
  /\ UNCHANGED <<enhance_vars, ats_vars, keyword_vars, template_vars, export_vars, document_vars, app_vars, library_vars>>

Init ==
  SpellInit /\ EnhanceInit /\ AtsInit /\ KeywordInit /\ TemplateInit
    /\ ExportInit
    /\ DocInit
    /\ AppInit
    /\ LibInit

NextSpell ==
  \/ \E piece \in SpellPieces : SpellType(piece)
  \/ SpellCheck

SpecSpell ==
  Init /\ [][NextSpell]_vars

NextEnhance ==
  \/ \E piece \in EnhancePieces : EnhanceType(piece)
  \/ Enhance

SpecEnhance ==
  Init /\ [][NextEnhance]_vars

NextAts ==
  \/ \E piece \in AtsPieces : AtsType(piece)
  \/ \E n \in BodyWords : AtsTypeBody(n)
  \/ \E job_keywords \in JobKeywords : AtsScore(job_keywords)

SpecAts ==
  Init /\ [][NextAts]_vars

NextKeyword ==
  \/ \E piece \in JobPieces : KeywordType(piece)
  \/ \E reply \in Replies : KeywordExtract(reply)

SpecKeyword ==
  Init /\ [][NextKeyword]_vars

NextTemplate ==
  \/ \E key \in GivenKeys : \E value \in GivenValues(key) : TemplateGive(key, value)
  \/ \E dark_mode \in BOOLEAN : TemplateDarkMode(dark_mode)
  \/ \E template_name \in TemplateNames : TemplateFormat(template_name)

SpecTemplate ==
  Init /\ [][NextTemplate]_vars

NextExport ==
  \/ \E available \in BOOLEAN : ExportImport(available)
  \/ \E piece \in ExportPieces : ExportType(piece)
  \/ \E filename \in Filenames : ExportOldFile(filename)
  \/ \E filename \in Filenames, dark_mode \in BOOLEAN,
        converter \in Converters, disk \in Disks :
       ExportSave(filename, dark_mode, converter, disk)

SpecExport ==
  Init /\ [][NextExport]_vars

NextDocument ==
  \/ \E line \in DocLines : DocType(line)
  \/ \E available \in BOOLEAN, disk \in {Written, OpenFails(Chars("[Errno 13] Permission denied"))} :
       DocSavePdf(available, disk)
  \/ \E available \in BOOLEAN, disk \in {Written, OpenFails(Chars("[Errno 13] Permission denied"))} :
       DocSaveDocx(available, disk)

SpecDocument ==
  Init /\ [][NextDocument]_vars

\* Generations with and without the service, on every history file found.
NextGenerating ==
  \/ \E history \in Histories : AppFindHistory(history)
  \/ \E libs \in {Libs(TRUE, TRUE, TRUE, TRUE), Libs(FALSE, FALSE, FALSE, FALSE)} :
       AppStart(libs)
  \/ \E form \in Forms, template_name \in {Chars("modern"), Chars("classic")},
        summary \in Summaries, probe \in BOOLEAN, again \in BOOLEAN, reply \in AppReplies :
       AppGenerate(form, template_name, summary, probe, again, reply)
  \/ AppGeneratePreview
  \/ \E disk \in {Written, OpenFails(Chars("[Errno 13] Permission denied"))} :
       AppGenerateHistory(disk)
  \/ AppGenerateScore
  \/ AppExport
  \/ \E filename \in {<<>>, Chars("cv")} :
       AppExportSave("txt", filename, FALSE, Converted(<<>>), Written)

SpecGenerating ==
  Init /\ [][NextGenerating]_vars

\* A session of generating, checking, correcting and enhancing.
NextSession ==
  \/ \E libs \in {Libs(TRUE, TRUE, TRUE, TRUE)} : AppStart(libs)
  \/ \E form \in Forms, summary \in Summaries :
       AppGenerate(form, Chars("modern"), summary, form.name # <<>>, form.name # <<>>,
                   IF form.name # <<>> THEN Answer(Chars("I recieve mail")) ELSE NoReply)
  \/ AppGeneratePreview
  \/ AppGenerateHistory(Written)
  \/ AppGenerateScore
  \/ AppCheckSpelling
  \/ \E dialog \in ap_dialogs : AppCloseDialog(dialog)
  \/ \E dialog \in ap_dialogs : AppApply(dialog)
  \/ AppApplyPreview
  \/ AppEnhance
  \/ \E k \in 1..MaxEnhancing,
        reply \in {Reply(FALSE, 200, TRUE, TRUE, FALSE, <<>>), Answer(Chars("Sorted mail"))} :
       WorkerCompute(k, TRUE, reply, Answer(Chars("Shorter.")))
  \/ \E k \in 1..MaxEnhancing : WorkerAssign(k)
  \/ \E k \in 1..MaxEnhancing : WorkerSchedule(k)
  \/ AppCallback

SpecSession ==
  Init /\ [][NextSession]_vars

\* The handlers that need a resume, with and without one.
NextGuarded ==
  \/ \E libs \in {Libs(TRUE, TRUE, TRUE, TRUE)} : AppStart(libs)
  \/ \E form \in Forms, summary \in Summaries :
       AppGenerate(form, Chars("modern"), summary, form.name # <<>>, form.name # <<>>,
                   IF form.name # <<>> THEN Answer(Chars("I recieve mail")) ELSE NoReply)
  \/ AppGeneratePreview
  \/ AppGenerateHistory(Written)
  \/ AppGenerateScore
  \/ AppExport
  \/ AppExportSave("txt", Chars("cv"), FALSE, Converted(<<>>), Written)
  \/ AppCheckSpelling
  \/ AppEnhance
  \/ \E k \in 1..MaxEnhancing, probe \in BOOLEAN :
       WorkerCompute(k, probe, IF probe THEN Reply(FALSE, 200, TRUE, TRUE, FALSE, <<>>) ELSE NoReply,
                     IF probe THEN Answer(Chars("Shorter.")) ELSE NoReply)
  \/ \E k \in 1..MaxEnhancing : WorkerAssign(k)
  \/ \E k \in 1..MaxEnhancing : WorkerSchedule(k)
  \/ AppCallback

SpecGuarded ==
  Init /\ [][NextGuarded]_vars

\* Exports in every format, with and without the libraries.
NextExporting ==
  \/ \E libs \in Installed : AppStart(libs)
  \/ \E form \in Forms, summary \in Summaries :
       AppGenerate(form, Chars("modern"), summary, form.name # <<>>, form.name # <<>>,
                   IF form.name # <<>> THEN Answer(Chars("I recieve mail")) ELSE NoReply)
  \/ AppGeneratePreview
  \/ AppGenerateHistory(Written)
  \/ AppGenerateScore
  \/ AppExport
  \/ \E format_type \in FORMATS, filename \in {<<>>, Chars("cv")}, dark_mode \in BOOLEAN,
        converter \in {Converted(<<>>), Converted(Chars("<p>Ann</p>"))},
        disk \in {Written, OpenFails(Chars("[Errno 13] Permission denied"))} :
       AppExportSave(format_type, filename, dark_mode, converter, disk)

SpecExporting ==
  Init /\ [][NextExporting]_vars

NextLibrary ==
  \/ \E piece \in LibPieces : LibType(piece)
  \/ \E function \in PROCESSING : LibCall(function)

SpecLibrary ==
  Init /\ [][NextLibrary]_vars

----------------------------------------------------------------------------
(* Properties of check_spelling.  They are stated over the words of the    *)
(* argument (its maximal runs of \w characters), not over regex matches.   *)

\* t[i] starts a word.
WordStart(t, i) ==
  IsWordAt(t, i) /\ ~IsWordAt(t, i - 1)

\* The last position of the word that starts at i.
WordEnd(t, i) ==
  Min({j \in i..Len(t) : ~IsWordAt(t, j + 1)})

WordAt(t, i) ==
  SubSeq(t, i, WordEnd(t, i))

\* The occurrences <<k, i>> of lexicon entry k as a word of t starting at i.
\* The lexicon entries whose misspelling is the word w, whatever its case.
EntriesOf(w) ==
  {k \in 1..Len(COMMON_SPELLING_MISTAKES) :
     COMMON_SPELLING_MISTAKES[k][1] = lower(w)}

Occurrences(t) ==
  UNION { {<<k, i>> : k \in EntriesOf(WordAt(t, i))} :
            i \in {j \in 1..Len(t) : WordStart(t, j)} }

\* C1: check_spelling is idempotent: applied to its own corrected text it
\* returns that text unchanged and an empty corrections list.
C1_Idempotent ==
  sp_calls = 2 => sp_text = sp_arg /\ sp_corr = <<>>

\* A second call was made on a text the first call had corrected.
C1_Witness ==
  sp_calls = 2 /\ sp_arg # sp_input

\* C2: when a whole-word occurrence of a misspelling begins with an
\* uppercase letter, the corrected text contains the capitalized replacement
\* and the corrections list contains the pair (matched text, capitalized
\* replacement).
C2_CasePreserved ==
  sp_calls = 1 =>
    \A o \in Occurrences(sp_arg) :
      isupper(sp_arg[o[2]]) =>
        LET cap == capitalize(COMMON_SPELLING_MISTAKES[o[1]][2])
        IN  /\ Contains(sp_text, cap)
            /\ <<WordAt(sp_arg, o[2]), cap>> \in Range(sp_corr)

\* The text in which every word that is a misspelling, whatever its case,
\* is replaced by the canonical correction.
RECURSIVE CanonicalFrom(_, _)
CanonicalFrom(t, i) ==
  IF i > Len(t)
  THEN <<>>
  ELSE IF ~WordStart(t, i)
       THEN <<t[i]>> \o CanonicalFrom(t, i + 1)
       ELSE LET hit == EntriesOf(WordAt(t, i))
            IN  (IF hit = {}
                 THEN WordAt(t, i)
                 ELSE COMMON_SPELLING_MISTAKES[Min(hit)][2])
                  \o CanonicalFrom(t, WordEnd(t, i) + 1)

Rank(occ, o) ==
  1 + Cardinality({q \in occ : q[1] < o[1] \/ (q[1] = o[1] /\ q[2] < o[2])})

\* C4: exactly one pair per whole-word occurrence, ordered by lexicon order
\* and, within an entry, left to right; with no occurrence the list is empty
\* and the text is returned unchanged.
C4_OnePairPerOccurrence ==
  sp_calls = 1 =>
    LET occ == Occurrences(sp_arg)
    IN  /\ Len(sp_corr) = Cardinality(occ)
        /\ \A o \in occ :
             sp_corr[Rank(occ, o)] =
               case_replacement(WordAt(sp_arg, o[2]),
                                COMMON_SPELLING_MISTAKES[o[1]][2])
        /\ occ = {} => sp_corr = <<>> /\ sp_text = sp_arg

\* Two occurrences were reported, the later one in the text first because
\* its lexicon entry comes first.
C4_Witness ==
  /\ sp_calls = 1
  /\ LET occ == Occurrences(sp_arg)
     IN  \E o, q \in occ :
           /\ o[2] > q[2]
           /\ o[1] < q[1]
           /\ sp_corr[Rank(occ, o)][1] = WordAt(sp_arg, o[2])
           /\ sp_corr[Rank(occ, q)][1] = WordAt(sp_arg, q[2])

----------------------------------------------------------------------------
(* Properties of enhance_text.                                             *)

\* The spans <<k, i, j>> of the argument t where entry k of WEAK_WORDS
\* stands as a whole word, whatever its case: t[i..j] is the entry and no
\* word character touches it on either side.
WeakSpans(t) ==
  { <<p[1], p[2], p[2] + Len(WEAK_WORDS[p[1]]) - 1>> :
      p \in { q \in (1..Len(WEAK_WORDS)) \X (1..Len(t)) :
               /\ ~IsWordAt(t, q[2] - 1)
               /\ q[2] + Len(WEAK_WORDS[q[1]]) - 1 <= Len(t)
               /\ ~IsWordAt(t, q[2] + Len(WEAK_WORDS[q[1]]))
               /\ lower(SubSeq(t, q[2], q[2] + Len(WEAK_WORDS[q[1]]) - 1))
                    = WEAK_WORDS[q[1]] } }

\* t without the characters at the positions of gone.
Without(t, gone) ==
  LET kept == {i \in 1..Len(t) : i \notin gone}
  IN  [n \in 1..Cardinality(kept) |->
         t[CHOOSE i \in kept : Cardinality({j \in kept : j < i}) = n - 1]]

IsRemoval(e) ==
  e[2] = REMOVED

IsClicheNote(e) ==
  e[2] = CLICHE_NOTE

IsVerbNote(e) ==
  Len(e[2]) > Len(VERB_NOTE) /\ SubSeq(e[2], 1, Len(VERB_NOTE)) = VERB_NOTE

\* C5: every whole-word occurrence of a WEAK_WORDS entry is deleted, and
\* each entry that occurs gets exactly one (weak_word, "(removed)")
\* enhancement, in lexicon order, however often it occurs; an entry that
\* does not occur gets none.
C5_WeakWordPass ==
  en_done =>
    LET spans == WeakSpans(en_arg)
        found == {s[1] : s \in spans}
        removals == SelectSeq(en_enh, IsRemoval)
    IN  /\ en_text = Without(en_arg, UNION {s[2]..s[3] : s \in spans})
        /\ WeakSpans(en_text) = {}
        /\ Len(removals) = Cardinality(found)
        /\ \A k \in found :
             removals[1 + Cardinality({j \in found : j < k})]
               = <<WEAK_WORDS[k], REMOVED>>

\* A weak word that occurs twice was deleted and reported once.
C5_Witness ==
  /\ en_done
  /\ \E s, q \in WeakSpans(en_arg) :
       /\ s[1] = q[1]
       /\ s[2] < q[2]
       /\ Len(SelectSeq(en_enh, IsRemoval)) = 1

\* C6: for every cliche that the lowercased text given to enhance_text
\* contains as a substring, the enhancements contain a suggestion naming
\* that cliche.
C6_ClicheFlagged ==
  en_done =>
    \A k \in 1..Len(RESUME_CLICHES) :
      Contains(lower(en_arg), RESUME_CLICHES[k]) =>
        <<RESUME_CLICHES[k], CLICHE_NOTE>> \in Range(en_enh)

\* C7: the text returned is the text left by the weak-word pass: the cliche
\* pass and the action-verb pass do not change it, whatever they suggest.
C7_OnlyWeakWordsChangeText ==
  en_done =>
    en_text = weak_loop([text |-> en_arg, enhancements |-> <<>>], 1).text

\* Weak words were deleted, and a cliche and a bullet were flagged.
C7_Witness ==
  /\ en_done
  /\ en_text # en_arg
  /\ \E n \in 1..Len(en_enh) : IsClicheNote(en_enh[n])
  /\ \E n \in 1..Len(en_enh) : IsVerbNote(en_enh[n])

\* Every verb of ACTION_VERBS, lower-cased.
AllVerbsLower ==
  UNION { {lower(v) : v \in Range(ACTION_VERBS[c])} : c \in DOMAIN ACTION_VERBS }

\* The bullet line opens with an action verb.
OpensWithVerb(line) ==
  rstrip(lower(Head(split(bullet_content(line)))), {",", ".", ":", ";"})
    \in AllVerbsLower

\* The bullet lines with content that do not open with an action verb.
NeedsVerb(line) ==
  /\ is_bullet(line)
  /\ bullet_content(line) # <<>>
  /\ ~OpensWithVerb(line)

\* The number of verbs of category c that occur in the content.
Score(c, content) ==
  LET where == lower(content)
  IN  Cardinality({v \in Range(ACTION_VERBS[c]) : Contains(where, lower(v))})

\* The number of the category with the highest score, the earliest such.
Best(content) ==
  LET scored == {<<k, Score(ACTION_VERB_CATEGORIES[k], content)>> :
                   k \in 1..Len(ACTION_VERB_CATEGORIES)}
      top == CHOOSE p \in scored :
               \A q \in scored : q[2] <= p[2] /\ (q[1] < p[1] => q[2] < p[2])
  IN  top[1]

\* The verb an action-verb enhancement suggests.
SuggestedVerb(e) ==
  SubSeq(e[2], Len(VERB_NOTE) + 1, Len(e[2]) - 1)

\* C8: a bullet line that opens with an action verb gets no enhancement;
\* every other bullet line with content gets exactly one, in line order,
\* whose verb belongs to the category with the highest score, the earliest
\* one on a tie, hence "management" when all scores are zero.
C8_ActionVerbPass ==
  en_done =>
    LET lines == split_lines(en_text)
        needy == {i \in 1..Len(lines) : NeedsVerb(lines[i])}
        notes == SelectSeq(en_enh, IsVerbNote)
    IN  /\ Len(notes) = Cardinality(needy)
        /\ \A i \in needy :
             LET e == notes[1 + Cardinality({j \in needy : j < i})]
                 content == bullet_content(lines[i])
             IN  /\ e[1] = BULLET_TARGET \o content
                 /\ e[2][Len(e[2])] = "'"
                 /\ SuggestedVerb(e)
                      \in Range(ACTION_VERBS[ACTION_VERB_CATEGORIES[Best(content)]])
                 /\ (\A c \in DOMAIN ACTION_VERBS : Score(c, content) = 0)
                      => SuggestedVerb(e) \in Range(ACTION_VERBS.management)

\* One bullet opens with an action verb and got nothing; another got a verb
\* of a category other than the first, which alone has the highest score.
C8_Witness ==
  /\ en_done
  /\ LET lines == split_lines(en_text)
     IN  /\ \E i \in 1..Len(lines) :
               is_bullet(lines[i]) /\ bullet_content(lines[i]) # <<>>
                 /\ OpensWithVerb(lines[i])
         /\ \E i \in 1..Len(lines) :
               NeedsVerb(lines[i]) /\ Best(bullet_content(lines[i])) # 1
  /\ Len(SelectSeq(en_enh, IsVerbNote)) = 1

----------------------------------------------------------------------------
(* Properties of calculate_ats_score.  The words, section headers and      *)
(* bullet markers of the resume text are counted here on their own, from    *)
(* where words end and from the characters around a header.                 *)

\* The number of whitespace-separated words of t, counted at their ends.
Words(t) ==
  Cardinality({i \in 1..Len(t) :
                 ~IsSpace(t[i]) /\ (i = Len(t) \/ IsSpace(t[i + 1]))})

\* How often the suggestion occurs in the report.
Times(report, suggestion) ==
  Cardinality({k \in 1..Len(report.suggestions) :
                 report.suggestions[k] = suggestion})

\* The header stands in t as a word by itself, in any case.
StandsAlone(t, header) ==
  \E i \in 1..(Len(t) - Len(header) + 1) :
     /\ ~IsWordAt(t, i - 1)
     /\ ~IsWordAt(t, i + Len(header))
     /\ lower(SubSeq(t, i, i + Len(header) - 1)) = header

\* The section-header terms that stand alone in t.
Headers(t) ==
  {header \in {Chars("experience"), Chars("education"), Chars("skills"),
                Chars("summary"), Chars("objective"), Chars("work"),
                Chars("contact")} : StandsAlone(t, header)}

\* The section-header terms that t contains, inside a longer word or not.
HeadersInside(t) ==
  {header \in Range(sections) : Contains(lower(t), header)}

IsMarker(c) ==
  c = Dot \/ c = "-" \/ c = "*"

IsAt(c) ==
  c = "@"

\* C9: with n the number of whitespace-separated words of the scored text,
\* length is 60 with one "too short" suggestion when n < 300, 70 with one
\* "too long" suggestion when n > 1000, and 100 with neither suggestion
\* when 300 <= n <= 1000.
C9_LengthBands ==
  at_score # <<>> =>
    LET n == Words(at_text)
        report == at_score[1]
    IN  /\ n < 300 =>
              /\ report.length = 60
              /\ Times(report, TOO_SHORT) = 1
              /\ Times(report, TOO_LONG) = 0
        /\ n > 1000 =>
              /\ report.length = 70
              /\ Times(report, TOO_LONG) = 1
              /\ Times(report, TOO_SHORT) = 0
        /\ (300 <= n /\ n <= 1000) =>
              /\ report.length = 100
              /\ Times(report, TOO_SHORT) = 0
              /\ Times(report, TOO_LONG) = 0

\* A text of exactly 300 words has been scored.
C9_Witness ==
  /\ at_score # <<>>
  /\ Words(at_text) = 300
  /\ at_score[1].length = 100

\* C10: the format sub-score is 100, minus 10 when the text has no '@',
\* minus 20 when fewer than 3 section-header terms stand in it as whole
\* words, minus 10 when it has fewer than 5 bullet markers; every deduction
\* made adds its suggestion once, a deduction not made adds none, and the
\* sub-score is not below 0.
C10_FormatScore ==
  at_score # <<>> =>
    LET report == at_score[1]
        no_email == Len(SelectSeq(at_text, IsAt)) = 0
        few_sections == Cardinality(Headers(at_text)) < 3
        few_bullets == Len(SelectSeq(at_text, IsMarker)) < 5
    IN  /\ report.format = 100 - (IF no_email THEN 10 ELSE 0)
                                - (IF few_sections THEN 20 ELSE 0)
                                - (IF few_bullets THEN 10 ELSE 0)
        /\ report.format >= 0
        /\ Times(report, NO_EMAIL) = (IF no_email THEN 1 ELSE 0)
        /\ Times(report, FEW_SECTIONS) = (IF few_sections THEN 1 ELSE 0)
        /\ Times(report, FEW_BULLETS) = (IF few_bullets THEN 1 ELSE 0)

\* A text with an address has been scored that contains three of the
\* terms, but fewer than three of them as whole words, and too few markers.
C10_Witness ==
  /\ at_score # <<>>
  /\ at_score[1].format = 70
  /\ Len(SelectSeq(at_text, IsAt)) > 0
  /\ Cardinality(HeadersInside(at_text)) >= 3
  /\ Times(at_score[1], FEW_SECTIONS) = 1
  /\ Times(at_score[1], FEW_BULLETS) = 1

\* The keywords of the scored call, <<>> when there were none.
ScoredKeywords ==
  IF at_keywords = {} THEN <<>> ELSE CHOOSE keywords \in at_keywords : TRUE

\* How many of the keywords stand in t as whole words, in any case.
KeywordsFound(t, keywords) ==
  LET found == {keyword \in Range(keywords) : StandsAlone(t, lower(keyword))}
  IN  Cardinality({k \in 1..Len(keywords) : keywords[k] \in found})

\* The suggestion is a keyword-match suggestion, whatever percentage it names.
IsKeywordNote(suggestion) ==
  Len(suggestion) = 3 /\ suggestion[1] = low_keyword_match(0)[1]

\* C11: for a non-empty keyword list of k keywords, m of them standing in
\* the text as whole words in any case, keyword_match is the integer part of
\* 100 * m / k, and one suggestion naming that percentage is added exactly
\* when it is below 70.
C11_KeywordScore ==
  (at_score # <<>> /\ Len(ScoredKeywords) > 0) =>
    LET report == at_score[1]
        k == Len(ScoredKeywords)
        m == KeywordsFound(at_text, ScoredKeywords)
        percent == (100 * m) \div k
    IN  /\ ~report.keyword_match.na
        /\ report.keyword_match.value = percent
        /\ Len(SelectSeq(report.suggestions, IsKeywordNote))
             = (IF percent < 70 THEN 1 ELSE 0)
        /\ percent < 70 =>
             Times(report, << "Low keyword match with job description (",
                              ToString(percent),
                              "%). Try including more relevant keywords." >>) = 1

\* C12: overall is the integer part of the mean of the numeric sub-scores,
\* of format, length and keyword_match when a non-empty keyword list was
\* given, otherwise of format and length with keyword_match "N/A"; overall,
\* format and length are in 0..100.
C12_OverallMean ==
  at_score # <<>> =>
    LET report == at_score[1]
    IN  /\ IF Len(ScoredKeywords) > 0
           THEN /\ ~report.keyword_match.na
                /\ report.overall =
                     (report.format + report.length + report.keyword_match.value) \div 3
           ELSE /\ report.keyword_match = [na |-> TRUE, value |-> 0]
                /\ report.overall = (report.format + report.length) \div 2
        /\ report.overall \in 0..100
        /\ report.format \in 0..100
        /\ report.length \in 0..100

\* A report over three sub-scores whose sum is not a multiple of 3.
C12_Witness ==
  /\ at_score # <<>>
  /\ Len(ScoredKeywords) > 0
  /\ (at_score[1].format + at_score[1].length + at_score[1].keyword_match.value) % 3 # 0
  /\ at_score[1].overall > 0

\* The place of a suggestion in the order length, email, sections, bullets,
\* keywords, band; 0 for anything else.
Place(suggestion) ==
  IF suggestion \in {TOO_SHORT, TOO_LONG} THEN 1
  ELSE IF suggestion = NO_EMAIL THEN 2
  ELSE IF suggestion = FEW_SECTIONS THEN 3
  ELSE IF suggestion = FEW_BULLETS THEN 4
  ELSE IF IsKeywordNote(suggestion) THEN 5
  ELSE IF suggestion \in {LOW_OVERALL, MODERATE_OVERALL, GOOD_OVERALL} THEN 6
  ELSE 0

\* C13: the last suggestion of every report is the band suggestion of its
\* overall score: "low" below 70, "moderate" from 70 to 84, "good" from 85
\* on; it is the only band suggestion, and the suggestions before it come
\* in the order length, email, sections, bullets, keywords.
C13_BandLast ==
  at_score # <<>> =>
    LET report == at_score[1]
        n == Len(report.suggestions)
    IN  /\ n >= 1
        /\ report.suggestions[n] =
             (IF report.overall < 70
              THEN << "Overall ATS compatibility is low. Follow the suggestions to improve." >>
              ELSE IF report.overall <= 84
                   THEN << "Resume has moderate ATS compatibility. Make suggested improvements for better results." >>
                   ELSE << "Resume has good ATS compatibility." >>)
        /\ \A i \in 1..n : Place(report.suggestions[i]) >= 1
        /\ \A i \in 1..(n - 1) :
             Place(report.suggestions[i]) < Place(report.suggestions[i + 1])

\* A report whose overall score is exactly 85, with suggestions before the
\* band suggestion.
C13_Witness ==
  /\ at_score # <<>>
  /\ at_score[1].overall = 85
  /\ Len(at_score[1].suggestions) >= 2

----------------------------------------------------------------------------
(* Properties of extract_keywords_from_job_description.  The counts of the *)
(* terms are taken here from the occurrences of the terms in the text.     *)

\* The service was not there for the call: no connection or a timeout, or
\* an answer that is not a 2xx one.
Down(reply) ==
  reply.raises \/ reply.status \notin 200..299

\* The single terms of the job description kw_text, one per occurrence that
\* is neither a stop word nor shorter than three characters, then its
\* two-word terms, one per adjacent pair of words without a stop word.
Occurring ==
  LET tokens == findall_tokens(lower(kw_text), 1)
      words == split(lower(kw_text))
      single(k) == tokens[k] \notin common_words /\ Len(tokens[k]) >= 3
      pair(k) == words[k] \notin common_words /\ words[k + 1] \notin common_words
      ks == SelectSeq([k \in 1..Len(tokens) |-> k], single)
      ps == SelectSeq([k \in 1..(Len(words) - 1) |-> k], pair)
  IN  [singles |-> [i \in 1..Len(ks) |-> tokens[ks[i]]],
       pairs |-> [i \in 1..Len(ps) |-> words[ps[i]] \o <<" ">> \o words[ps[i] + 1]]]

\* The count of a term: 1 per single occurrence, 3 per pair occurrence.
CountOf(occ, term) ==
  Cardinality({k \in 1..Len(occ.singles) : occ.singles[k] = term})
    + 3 * Cardinality({k \in 1..Len(occ.pairs) : occ.pairs[k] = term})

\* When a counted term was first entered: the singles come before the pairs.
SeenAt(occ, term) ==
  Min({k \in 1..(Len(occ.singles) + Len(occ.pairs)) : (occ.singles \o occ.pairs)[k] = term})

\* The term a comes before the term b in the ranking.
Before(occ, a, b) ==
  \/ CountOf(occ, a) > CountOf(occ, b)
  \/ CountOf(occ, a) = CountOf(occ, b) /\ SeenAt(occ, a) < SeenAt(occ, b)

\* C14: a call answered by the heuristic returns at most 20 terms, each a
\* counted term, in non-increasing order of their counts (1 per surviving
\* single token, 3 per adjacent pair without stop word), terms of equal
\* count in the order they were first entered; no term left out comes
\* before a returned one, and none is left out while fewer than 20 are
\* returned.
C14_TopTwenty ==
  \A c \in 1..Len(kw_results) :
    Down(kw_replies[c]) =>
      LET occ == Occurring
          terms == Range(occ.singles) \cup Range(occ.pairs)
          result == kw_results[c].value
      IN  /\ kw_results[c].outcome = "return"
          /\ Len(result) <= 20
          /\ \A i \in 1..Len(result) : result[i] \in terms
          /\ \A i \in 1..(Len(result) - 1) : Before(occ, result[i], result[i + 1])
          /\ \A term \in terms \ Range(result) :
                Len(result) = 20 /\ Before(occ, result[20], term)

\* The heuristic has answered for a text with more than 20 terms, among
\* them a single term and a pair of the same count.
C14_Witness ==
  /\ Len(kw_results) >= 1
  /\ Down(kw_replies[1])
  /\ Len(kw_results[1].value) = 20
  /\ LET occ == Occurring
     IN  /\ Cardinality(Range(occ.singles) \cup Range(occ.pairs)) > 20
         /\ \E a \in Range(occ.singles) : \E b \in Range(occ.pairs) :
               CountOf(occ, a) = CountOf(occ, b)

\* The service answered 200 with a body that is not what it promises: not
\* JSON, JSON that is not an object, or an object without the "response".
Malformed(reply) ==
  /\ ~reply.raises
  /\ reply.status = 200
  /\ ~reply.json \/ ~reply.object \/ ~reply.has_response

\* C15: a call whose service request ends in a connection failure or
\* timeout, in an answer that is not a 2xx one, or in a malformed or
\* unparseable answer, raises nothing and returns what the heuristic
\* returns for the job description.
C15_UnavailableFallsBack ==
  \A c \in 1..Len(kw_results) :
    (Down(kw_replies[c]) \/ Malformed(kw_replies[c])) =>
      /\ kw_results[c].outcome = "return"
      /\ kw_results[c].value = heuristic_keywords(kw_text)

----------------------------------------------------------------------------
(* Properties of get_template and format_resume.                           *)

\* The name spells the word, in any case.
Spells(name, word) ==
  /\ Len(name) = Len(word)
  /\ \A i \in 1..Len(name) : name[i] = word[i] \/ name[i] = UpperOf[word[i]]

\* The call was made with dark mode on.
DarkOn ==
  tp_dark = <<TRUE>>

\* C17: with dark mode on and a name that does not spell "dark", the call
\* gets the dark template whatever the name; otherwise it gets the template
\* whose name the given name spells in any case, modern, classic, minimalist
\* or dark, and the modern template for any other name.
C17_TemplateResolution ==
  tp_call # <<>> =>
    LET name == tp_call[1].template_name
        template == tp_call[1].template
    IN  IF DarkOn /\ ~Spells(name, Chars("dark"))
        THEN template = DARK_TEMPLATE
        ELSE /\ Spells(name, Chars("modern")) => template = MODERN_TEMPLATE
             /\ Spells(name, Chars("classic")) => template = CLASSIC_TEMPLATE
             /\ Spells(name, Chars("minimalist")) => template = MINIMALIST_TEMPLATE
             /\ Spells(name, Chars("dark")) => template = DARK_TEMPLATE
             /\ (\A word \in {Chars("modern"), Chars("classic"),
                               Chars("minimalist"), Chars("dark")} :
                     ~Spells(name, word)) => template = MODERN_TEMPLATE

\* Calls with a name in capitals: one without dark mode, which gets the
\* template of that name, or one with dark mode, which gets the dark one.
C17_Witness ==
  /\ tp_call # <<>>
  /\ tp_call[1].template_name = Chars("MINIMALIST")
  /\ tp_call[1].template = IF DarkOn THEN DARK_TEMPLATE ELSE MINIMALIST_TEMPLATE
  /\ tp_dark # <<>>

\* The texts of the sequence, one after the other.
RECURSIVE Flat(_)
Flat(texts) ==
  IF texts = <<>> THEN <<>> ELSE Head(texts) \o Flat(Tail(texts))

\* The template with shown[key] in the place of every field {key}.
Filled(template, shown) ==
  Flat([k \in 1..Len(template) |->
          IF template[k].field THEN shown[template[k].key] ELSE template[k].text])

TenKeys ==
  {"name", "job_role", "summary", "skills", "experience", "education",
   "email", "phone", "location", "links"}

\* C18: every field of the four templates is one of the ten default keys,
\* and a call with any of the fields given, and with keys that are no
\* fields, returns the template filled with the values given, the empty
\* text standing for every field not given; it does not raise.
C18_AbsentFieldsEmpty ==
  /\ \A template \in {MODERN_TEMPLATE, CLASSIC_TEMPLATE, MINIMALIST_TEMPLATE,
                        DARK_TEMPLATE} :
       \A k \in 1..Len(template) : template[k].field => template[k].key \in TenKeys
  /\ tp_call # <<>> =>
       LET shown == [key \in TenKeys |->
                       IF key \notin DOMAIN tp_fields THEN <<>>
                       ELSE IF key = "skills" THEN format_skills(tp_fields)["skills"]
                       ELSE tp_fields[key]]
       IN  /\ tp_call[1].result.outcome = "return"
           /\ tp_call[1].result.value = Filled(tp_call[1].template, shown)

\* A call was made with a key that is no field and with one real field.
C18_Witness ==
  /\ tp_call # <<>>
  /\ DOMAIN tp_fields = {"hobby", "email"}
  /\ tp_call[1].result.outcome = "return"

\* The places of the commas of a text.
Commas(text) ==
  {i \in 1..Len(text) : text[i] = ","}

\* The n-th segment of a text cut at its commas.
Segment(text, n) ==
  LET before == {i \in Commas(text) : Cardinality({j \in Commas(text) : j <= i}) = n - 1}
      behind == {i \in Commas(text) : Cardinality({j \in Commas(text) : j <= i}) = n}
      from == IF before = {} THEN 1 ELSE (CHOOSE i \in before : TRUE) + 1
      to == IF behind = {} THEN Len(text) ELSE (CHOOSE i \in behind : TRUE) - 1
  IN  SubSeq(text, from, to)

\* The skills as they are to be shown: one line "- segment" per segment,
\* trimmed, when there is a comma, otherwise the value as it is.
ShownSkills(skills) ==
  IF Commas(skills) = {}
  THEN skills
  ELSE Flat([n \in 1..(Cardinality(Commas(skills)) + 1) |->
               (IF n = 1 THEN <<>> ELSE <<"\n">>)
                 \o <<"-", " ">> \o strip(Segment(skills, n))])

----------------------------------------------------------------------------
(* Properties of save_as_html.                                             *)

\* The part stands in the content from place i on.
PartAt(content, part, i) ==
  /\ i >= 1
  /\ i + Len(part) - 1 <= Len(content)
  /\ \A j \in 1..Len(part) : content[i + j - 1] = part[j]

\* The content is a whole HTML document with the text, character for
\* character, in a <pre> block in its body.
WrapsInPre(content, text) ==
  /\ PartAt(content, Chars("<!DOCTYPE html>\n<html>\n<head>"), 1)
  /\ PartAt(content, Chars("</body>\n</html>"), Len(content) - 14)
  /\ \E i \in 1..Len(content) :
       /\ PartAt(content, Chars("</head>\n<body>"), i)
       /\ \E j \in (i + 14)..(i + 20) :
            /\ PartAt(content, Chars("<pre>") \o text \o Chars("</pre>"), j)
            /\ \A k \in (i + 14)..(j - 1) : IsSpace(content[k])
            /\ \A k \in (j + Len(text) + 11)..(Len(content) - 15) : IsSpace(content[k])

\* A call was made while markdown is not available.
SavedWithoutMarkdown ==
  ex_call # <<>> /\ ex_markdown = <<FALSE>>

\* C20: when markdown is not available, save_as_html does not raise,
\* however the opening and the writing of the file end, and when they
\* succeed the file is a whole HTML document with the text, as it is, in a
\* <pre> block.
C20_FallbackNeverRaises ==
  SavedWithoutMarkdown =>
    /\ ex_call[1].outcome = "return"
    /\ ex_call[1].disk = Written =>
          /\ ex_call[1].filename \in DOMAIN ex_files
          /\ WrapsInPre(ex_files[ex_call[1].filename], ex_text)

\* The places where the part stands in the content.
PlacesOf(content, part) ==
  {i \in 1..Len(content) : PartAt(content, part, i)}

\* The style sheet of a document: what stands between <style> and </style>,
\* without the blanks around it.
StyleOf(content) ==
  LET from == Min(PlacesOf(content, Chars("<style>"))) + 7
      to == Min(PlacesOf(content, Chars("</style>"))) - 1
  IN  strip(SubSeq(content, from, to))

\* The call has written its whole document into the file.
WroteDocument ==
  /\ ex_call # <<>>
  /\ ex_call[1].outcome = "return"
  /\ ex_call[1].disk = Written
  /\ ex_markdown = <<TRUE>> => ~ex_call[1].converter.raises

\* C21: every document that save_as_html writes, with the converter or
\* with the <pre> fallback, has one <style> block, and its style sheet is
\* the dark one when dark_mode is set and the light one when it is not.
C21_CssVariant ==
  WroteDocument =>
    LET content == ex_files[ex_call[1].filename]
    IN  /\ Cardinality(PlacesOf(content, Chars("<style>"))) = 1
        /\ Cardinality(PlacesOf(content, Chars("</style>"))) = 1
        /\ StyleOf(content) = strip(IF ex_call[1].dark_mode THEN DARK_CSS ELSE LIGHT_CSS)

----------------------------------------------------------------------------
(* Properties of save_as_pdf and save_as_docx.                             *)

\* The text was saved as PDF and as DOCX, both libraries at hand and both
\* files written.
SavedBoth ==
  /\ Len(dc_calls) = 2
  /\ \A k \in 1..2 : dc_calls[k].available /\ dc_calls[k].disk = Written

\* The kinds of the elements of a document, the breaks for blank lines
\* left out.
KindsOf(elements) ==
  LET Solid(element) == element.kind # "blank"
      solid == SelectSeq(elements, Solid)
  IN  [k \in 1..Len(solid) |-> solid[k].kind]

\* C22: the PDF writer and the DOCX writer make the same kind of element
\* of every line, heading, bold line, bullet, separator, paragraph with
\* bold spans or plain paragraph, so that the two documents of a text hold
\* the same kinds in the same order; a line that starts and ends with "**"
\* is a bold line in both.
C22_SameElements ==
  SavedBoth =>
    KindsOf(dc_files[Chars("resume.pdf")]) = KindsOf(dc_files[Chars("resume.docx")])

----------------------------------------------------------------------------
(* Properties of the application.                                          *)

\* The handler that ended last is an export as DOCX or as PDF into a file
\* named, without the library of the format.
ExportedWithoutBackend ==
  /\ ap_last.op = "export"
  /\ ap_last.done
  /\ \/ ap_last.format = "docx" /\ ~ap_libs[1].docx
     \/ ap_last.format = "pdf" /\ ~ap_libs[1].fpdf

\* The message names the package that the format needs.
NamesPackage(message, format_type) ==
  PlacesOf(message, Chars(IF format_type = "docx" THEN "python-docx" ELSE "fpdf")) # {}

\* There is a plain-text file with the text.
TextFileOf(text) ==
  \E name \in DOMAIN ap_files : endswith(name, Chars(".txt")) /\ ap_files[name] = text

\* C23: an export as DOCX or as PDF without the library of the format ends
\* in an error message that names the missing package, and falls back to
\* the plain-text export, so that a file with the text is there afterwards.
C23_FallsBackToText ==
  ExportedWithoutBackend =>
    /\ ap_last.outcome = "return"
    /\ NamesPackage(ap_last.value, ap_last.format)
    /\ TextFileOf(ap_last.text)


\* The step ends an export into a file.
ExportEnds ==
  /\ ap_main # <<>>
  /\ ap_main[1].op = "export"
  /\ ap_last'.op = "export"
  /\ ap_last'.done

\* The step is the saving of a generation to the history, the disk in
\* order.
GenerationSaves ==
  AppGenerateHistory(Written)

\* The step leaves the history a list with one record more, the records
\* it held before kept in their places.
AppendsOne ==
  /\ ap_history'.kind = "list"
  /\ Len(ap_history'.records) = Len(ap_history.records) + 1
  /\ SubSeq(ap_history'.records, 1, Len(ap_history.records)) = ap_history.records

\* C25: the history is append-only: every generation and every export
\* appends exactly one record to it and keeps the records before, in
\* whatever state the history file was found.
C25_AppendOnly ==
  [][GenerationSaves \/ ExportEnds => AppendsOne]_vars


\* Nothing is going on: no handler is running, no enhance thread is
\* running and no preview update is scheduled.
Quiescent ==
  /\ ap_libs # <<>>
  /\ ap_main = <<>>
  /\ ap_workers = <<>>
  /\ ap_pending = <<>>

\* C26: however the steps of the enhance thread fall between those of
\* generate_resume and apply_spelling_corrections, in every quiescent state
\* after a generation the preview shows exactly self.resume_text.
C26_PreviewShowsText ==
  Quiescent /\ ap_generated => ap_preview = ap_resume_text


\* The step is a call of check_spelling, enhance_resume or
\* export_current_resume.
Invoked ==
  AppCheckSpelling \/ AppEnhance \/ AppExport

\* The step is one that calls calculate_ats_score.
Scored ==
  AppGenerateScore \/ AppCallback

\* C27: called while self.resume_text is empty, check_spelling,
\* enhance_resume and export_current_resume change nothing and
\* calculate_ats_score leaves the score display as it is; so there is no
\* exported file before generate_resume has set a text that is not empty.
C27_EmptyTextGuards ==
  /\ [][/\ ap_resume_text = <<>> /\ Invoked =>
             UNCHANGED <<ap_resume_text, ap_preview, ap_ats, ap_history, ap_files,
                         ap_workers, ap_pending, ap_dialogs, ap_main, ap_generated>>
        /\ ap_resume_text = <<>> /\ Scored => ap_ats' = ap_ats]_vars
  /\ [](DOMAIN ap_files # {} => ap_generated)

\* An export is refused because the text, exported before, is empty now.
C27_Witness ==
  /\ ap_resume_text = <<>>
  /\ ap_last = [op |-> "export", done |-> FALSE]
  /\ DOMAIN ap_files # {}


\* The step is the return of apply_spelling_corrections, called from the
\* dialog.
ApplyReturns(dialog) ==
  \/ AppApply(dialog) /\ ap_main' = <<>>
  \/ AppApplyPreview /\ ap_main[1].dialog = dialog

RATINGS ==
  { "Excellent", "Good", "Average", "Needs Improvement" }

\* C29: for a resume scored without job keywords, the overall score is in
\* 60..100, and the display that the application's calculate_ats_score
\* makes of it shows that score with the rating "Excellent", "Good" or
\* "Average", never "Needs Improvement".
C29_NeverNeedsImprovement ==
  at_score # <<>> /\ at_keywords = None /\ at_text # <<>> =>
    LET display == ats_display(at_text, TRUE, <<>>)
    IN  /\ at_score[1].overall \in 60..100
        /\ display[1].overall = at_score[1].overall
        /\ display[1].rating \in RATINGS \ {"Needs Improvement"}

\* A resume scored 60 without job keywords.
C29_Witness ==
  /\ at_score # <<>>
  /\ at_keywords = None
  /\ at_text # <<>>
  /\ at_score[1].overall = 60


\* generate_resume is under way, at the given step.
Generating(step) ==
  /\ ap_main # <<>>
  /\ ap_main[1].op = "generate"
  /\ ap_main[1].step = step

\* The generation under way called generate_resume_with_ai: the first probe
\* succeeded and requests is installed.
AskedService ==
  ap_main[1].probe /\ ap_libs[1].requests

\* The generation under way got nothing from the service: the probe of
\* generate_resume_with_ai or its request failed.
ServiceFailed ==
  ai_resume(ap_main[1].again, ap_main[1].reply).outcome = "raise"

\* The rendering of the form of the generation under way.
Rendering(template_name) ==
  format_resume_from_template(ap_main[1].form, ap_main[1].summary, template_name)

\* C30: when the probe of generate_resume succeeds and the generation by
\* the service fails, generate_resume_with_ai raises nothing and returns
\* the rendering of the "modern" template, whatever template is selected,
\* and that is the resume, while the history record stores the selected
\* template; the selected template is rendered only when the probe fails
\* or requests is missing.
C30_FallbackIsModern ==
  /\ Generating("preview") /\ AskedService =>
       LET made == generate_resume_with_ai(ap_main[1].form, ap_main[1].summary,
                                           ap_main[1].template, ap_libs[1].requests,
                                           ap_main[1].again, ap_main[1].reply)
       IN  /\ made.outcome = "return"
           /\ ap_resume_text = made.value
           /\ made.value = IF ServiceFailed THEN Rendering(Chars("modern"))
                           ELSE ap_main[1].reply.response
  /\ Generating("preview") /\ ~AskedService =>
       ap_resume_text = Rendering(ap_main[1].template)
  /\ Generating("score") =>
       ap_history.records[Len(ap_history.records)].template = ap_main[1].template

\* A generation with the classic template selected whose request the
\* service refused: the resume is the modern rendering, not the classic
\* one, and the record in the history says classic.
C30_Witness ==
  /\ Generating("score")
  /\ AskedService
  /\ ap_main[1].again
  /\ ap_main[1].reply.status = 500
  /\ ap_main[1].template = Chars("classic")
  /\ ap_main[1].text = Rendering(Chars("modern"))
  /\ ap_main[1].text # Rendering(Chars("classic"))
  /\ ap_history.records[Len(ap_history.records)].template = Chars("classic")


----------------------------------------------------------------------------
(* Properties of the tables.                                               *)

====
